---- MODULE Spec2Model ----
(***************************************************************************)
(* A model of the round-based message competition server: the Hub event    *)
(* loop (internal/hub/hub.go), the round scheduler (internal/hub/rounds.go *)
(* in its two versions), the per-client read and write pumps               *)
(* (internal/hub/websocket.go), the message handler                        *)
(* (internal/hub/messaging.go) and the in-memory winner selection and the  *)
(* publishers of internal/hub/nats.go, and the round history handler of    *)
(* internal/api/api.go.                                                    *)
(*                                                                         *)
(* Every goroutine is a process with a program counter.  A critical        *)
(* section of h.Mu is one atomic step.  A send on an unbuffered channel    *)
(* (Register, Unregister, Broadcast) is a rendezvous with the Hub at its   *)
(* select; a send on a client's buffered Send channel is one step that is  *)
(* enabled while the buffer has room.  A case of the select of Hub.Run is   *)
(* one step.  A read of Hub state outside the mutex is a step apart from   *)
(* the critical sections around it, so that every value the racing read    *)
(* can return (the one before or after a concurrent write) is covered.     *)
(***************************************************************************)
EXTENDS Integers, Sequences, FiniteSets, TLC

(***************************************************************************)
(* Bounds of the model.                                                    *)
(***************************************************************************)
MaxRounds == 2        \* rounds the scheduler starts
MaxMsgs == 2          \* envelopes the connections send
SmallCap == 2         \* capacity of client.Send in the runs that fill it
MaxPublishFailures == 1  \* calls of Js.Publish that fail
MaxCountdown == 1     \* iterations of StartCountdown (10 in the source)
StartEpoch == 100     \* time.Now().Unix() when the Hub is started

ConnIds == {"c1", "c2"}
NoClient == "none"

\* usernames (sequences of characters) a connection may ask for in /ws?username=...
Alice == <<"a", "l", "i">>
Bob == <<"b", "_", "9">>
TooShort == <<"a", "l">>
BadChar == <<"a", "-", "i">>
UsernameInputs(c) == IF c = "c1" THEN {Alice} ELSE {Alice, Bob, TooShort, BadChar}

MinUsernameLen == 3
MaxUsernameLen == 20
UsernameChars ==
    { "a", "b", "c", "d", "e", "f", "g", "h", "i", "j", "k", "l", "m",
      "n", "o", "p", "q", "r", "s", "t", "u", "v", "w", "x", "y", "z",
      "A", "B", "C", "D", "E", "F", "G", "H", "I", "J", "K", "L", "M",
      "N", "O", "P", "Q", "R", "S", "T", "U", "V", "W", "X", "Y", "Z",
      "0", "1", "2", "3", "4", "5", "6", "7", "8", "9", "_" }

\* validateUsername with a fault: a username of the greatest length is refused
validateUsernameBelowMax(username) ==
    /\ ~(Len(username) < MinUsernameLen \/ Len(username) >= MaxUsernameLen)
    /\ \A i \in 1..Len(username) : username[i] \in UsernameChars

\* validateUsername
validateUsername(username) ==
    /\ ~(Len(username) < MinUsernameLen \/ Len(username) > MaxUsernameLen)
    /\ \A i \in 1..Len(username) : username[i] \in UsernameChars

\* make(chan []byte, 256) in ServeWs
SendCapacity == 256

TimerVariants == {"toggle", "endstart"}

\* ticker period in seconds: rounds.go (toggle) and its 15 s version (endstart)
RoundSeconds(v) == IF v = "toggle" THEN 30 ELSE 15

(***************************************************************************)
(* Envelopes a client sends.  data is a sequence of characters; NoValue    *)
(* stands for a JSON value that is not a string (or is missing).           *)
(***************************************************************************)
NoValue == "<not-a-string>"

\* the envelope {"version": version, "type": type, "data": data}
Envelope(version, type, data) == [version |-> version, type |-> type, data |-> data]

\* a content of n bytes, none of them white space
Content(n) == [i \in 1..n |-> "x"]

Envelopes ==
    { Envelope("1.0", "client_message", <<"h">>),
      Envelope("2.0", "client_message", <<"h">>),
      Envelope("1.0", "client_message", <<" ", "h", " ">>),
      Envelope("1.0", "client_message", <<" ">>),
      Envelope("1.0", "client_message", <<>>),
      Envelope("1.0", "client_message", Content(500)),
      Envelope("1.0", "client_message", Content(501)),
      Envelope("1.0", "chat", <<"h">>),
      Envelope("1.0", NoValue, <<"h">>) }

\* client.Conn.SetReadLimit(512)
readLimit == 512

\* bytes of a JSON member "key":value whose value takes valueSize bytes
JsonMember(key, valueSize) == Len(key) + 3 + valueSize

\* bytes of a JSON string of n bytes that need no escape
JsonString(n) == n + 2

\* bytes of the text frame that carries envelope e, written without white
\* space; a "type" that is not a string is written as a one-digit number
WireSize(e) ==
    2 + JsonMember("version", JsonString(Len(e.version))) + 1
      + JsonMember("type", IF e.type = NoValue THEN 1 ELSE JsonString(Len(e.type))) + 1
      + JsonMember("data", JsonString(Len(e.data)))

IsSpace(ch) == ch \in {" ", "\t", "\n", "\r"}

RECURSIVE TrimLeft(_)
TrimLeft(s) == IF s # <<>> /\ IsSpace(Head(s)) THEN TrimLeft(Tail(s)) ELSE s

RECURSIVE TrimRight(_)
TrimRight(s) ==
    IF s # <<>> /\ IsSpace(s[Len(s)]) THEN TrimRight(SubSeq(s, 1, Len(s) - 1)) ELSE s

\* strings.TrimSpace
TrimSpace(s) == TrimRight(TrimLeft(s))

MaxContentLen == 500

\* validateMessageContent
validateMessageContent(content) ==
    LET t == TrimSpace(content) IN Len(t) >= 1 /\ Len(t) <= MaxContentLen

(***************************************************************************)
(* Frames the server puts on a client's Send channel.                      *)
(***************************************************************************)
\* seq is not part of the frame: it numbers the frames put on one client's
\* Send channel in the order they were put there (0 before that).  code is
\* the "error_code" key of the JSON object, which no frame of the server has.
Frame(type, text, round, user, content, total) ==
    [type |-> type, text |-> text, round |-> round, user |-> user,
     content |-> content, total |-> total, code |-> NoValue, seq |-> 0]

FrameTypes == {"round_start", "round_info", "countdown", "winner_announcement",
               "ack", "error"}
ReplyTypes == {"ack", "error"}

RoundStartFrame(id) == Frame("round_start", "", id, <<>>, <<>>, 0)
RoundStartedInfo(id) == Frame("round_info", "started", id, <<>>, <<>>, 0)
RoundEndedInfo(id) == Frame("round_info", "ended", id, <<>>, <<>>, 0)
CountdownFrame(i) == Frame("countdown", "", i, <<>>, <<>>, 0)
NoWinnerFrame(id) ==
    Frame("winner_announcement", "No messages submitted this round", id, <<>>, <<>>, 0)
WinnerFrame(id, w, total) ==
    Frame("winner_announcement", "", id, w.Username, w.Message, total)
\* the announcements of the SelectWinner that reads the round from the stream
NoMessagesText == Frame("selected_text", "No messages submitted for this round.", 0, <<>>, <<>>, 0)
FallbackText == Frame("selected_text", "Random winner selected for the round!", 0, <<>>, <<>>, 0)
SelectedText(user, content) == Frame("selected_text", "Winner", 0, user, content, 0)
AckFrame == Frame("ack", "Message received successfully", 0, <<>>, <<>>, 0)
ErrorFrame(text) == Frame("error", text, 0, <<>>, <<>>, 0)

(***************************************************************************)
(* Records on the event stream.                                            *)
(***************************************************************************)
StreamRecord(kind, round, user, content) ==
    [kind |-> kind, round |-> round, username |-> user, content |-> content]

VARIABLES
    natsUp,          \* h.NatsConn != nil && h.Js != nil
    sendCap,         \* cap(client.Send)
    timerVariant,    \* which StartRoundTimer the server runs
    now,             \* wall clock, seconds
    Clients,         \* h.Clients
    RoundActive,     \* h.RoundActive
    CurrentRoundID,  \* h.CurrentRoundID
    MessageLimiter,  \* h.MessageLimiter: the usernames marked
    RoundMessages,   \* h.RoundMessages: round id -> sequence of RoundMessage
    hub,             \* Hub.Run: pc and locals
    sched,           \* StartRoundTimer: pc and locals
    countdown,       \* the StartCountdown goroutines, by round number
    winner,          \* the SelectWinner goroutines, by round number
    Username,        \* client.Username
    Send,            \* client.Send: the buffered frames
    SendClosed,      \* close(client.Send) has run
    connCloses,      \* calls of client.Conn.Close()
    rp,              \* ReadPump: pc and locals
    wp,              \* WritePump: pc
    nSent,           \* envelopes each connection has sent
    stream,          \* records published to JetStream, in order
    pubFailures,     \* calls of Js.Publish that failed
    enq,             \* frames put on client.Send so far: all, acks, errors
    delivered,       \* the frames of the Hub put on client.Send so far
    transport,       \* the writes to client.Conn, in order: the seqs of each
    regAtEnd,        \* each round EndRound closed, with the registry at that time
    http,            \* the last HTTP request and the response to it
    consumers,       \* the ephemeral consumers and subscriptions held on JetStream
    rejected         \* the (username, round id) of the submissions rejected for their data

hubVars == <<Clients, hub>>
roundVars == <<RoundActive, CurrentRoundID, MessageLimiter>>
clientVars == <<Username, Send, SendClosed, connCloses, rp, wp, nSent, enq, delivered, transport>>
vars == <<natsUp, sendCap, pubFailures, timerVariant, now, Clients, RoundActive, CurrentRoundID,
          MessageLimiter, RoundMessages, hub, sched, countdown, winner, Username,
          Send, SendClosed, connCloses, rp, wp, nSent, stream, enq, delivered,
          transport, regAtEnd, http, consumers, rejected>>

RoundNumbers == 1..MaxRounds

HubIdle == [pc |-> "select", client |-> NoClient, message |-> AckFrame]
ReadIdle == [pc |-> "read", msg |-> Envelope("", "", <<>>),
             text |-> "", roundID |-> 0]
\* announced counts the announcements a SelectWinner goroutine has broadcast
TaskIdle == [pc |-> "none", roundID |-> 0, i |-> 0, frame |-> AckFrame,
             picked |-> FALSE, won |-> [Username |-> <<>>, Message |-> <<>>, Timestamp |-> 0],
             announced |-> 0]

\* a request to `route` (on connection conn for /ws) with argument arg (the
\* username parameter of /ws, the path of /api/rounds/), the status of the
\* response, whether its body is the JSON document of a 200, and the "count"
\* of that document
Exchange(route, conn, arg, status, json, count) ==
    [route |-> route, conn |-> conn, arg |-> arg, status |-> status, json |-> json,
     count |-> count]

NoExchange == Exchange("", NoClient, <<>>, 0, FALSE, 0)

\* NewHub, before Run is started
Init ==
    /\ natsUp \in BOOLEAN
    /\ sendCap \in {SendCapacity, SmallCap}
    /\ pubFailures = 0
    /\ timerVariant \in TimerVariants
    /\ now = StartEpoch
    /\ Clients = {}
    /\ RoundActive = FALSE
    /\ CurrentRoundID = 0
    /\ MessageLimiter = {}
    /\ RoundMessages = <<>>
    /\ hub = HubIdle
    /\ sched = [pc |-> "start_lock", roundID |-> 0, started |-> 0, ended |-> 0]
    /\ countdown = [k \in RoundNumbers |-> TaskIdle]
    /\ winner = [k \in RoundNumbers |-> TaskIdle]
    /\ Username = [c \in ConnIds |-> <<>>]
    /\ Send = [c \in ConnIds |-> <<>>]
    /\ SendClosed = [c \in ConnIds |-> FALSE]
    /\ connCloses = [c \in ConnIds |-> 0]
    /\ rp = [c \in ConnIds |-> [ReadIdle EXCEPT !.pc = "none"]]
    /\ wp = [c \in ConnIds |-> "none"]
    /\ nSent = [c \in ConnIds |-> 0]
    /\ stream = <<>>
    /\ enq = [c \in ConnIds |-> [t \in {"all"} \cup ReplyTypes |-> 0]]
    /\ delivered = [c \in ConnIds |-> {}]
    /\ transport = [c \in ConnIds |-> <<>>]
    /\ regAtEnd = <<>>
    /\ http = NoExchange
    /\ consumers = {}
    /\ rejected = {}

(***************************************************************************)
(* Helpers.                                                                *)
(***************************************************************************)
\* client.Send <- f
Enqueued(c) == enq[c]["all"]

\* the counters of one client after a frame of type t was put on its queue
Counted(counters, t) ==
    [k \in DOMAIN counters |-> IF k = "all" \/ k = t THEN counters[k] + 1 ELSE counters[k]]

Enqueue(c, f) ==
    /\ Send' = [Send EXCEPT ![c] = Append(@, [f EXCEPT !.seq = Enqueued(c) + 1])]
    /\ enq' = [enq EXCEPT ![c] = Counted(@, f.type)]
    /\ delivered' = IF f.type \in ReplyTypes THEN delivered
                    ELSE [delivered EXCEPT ![c] = @ \cup {f}]

HasRoom(c) == Len(Send[c]) < sendCap

\* Js.Publish(subject, data): ok is whether the broker took the record
Publish(rec, ok) ==
    /\ ok \/ (natsUp /\ pubFailures < MaxPublishFailures)
    /\ stream' = IF natsUp /\ ok THEN Append(stream, rec) ELSE stream
    /\ pubFailures' = IF ok THEN pubFailures ELSE pubFailures + 1

\* the queues after `message` was put on the queue of every client of `to`
FanOut(queues, to, message) ==
    [c \in ConnIds |->
        IF c \in to
        THEN Append(queues[c], [message EXCEPT !.seq = Enqueued(c) + 1])
        ELSE queues[c]]

\* HubBroadcast with a fault: the walk may pass over clients whose queue has
\* room
HubBroadcastSkipping(message, served, full) ==
    /\ hub.pc = "select"
    /\ served \subseteq {c \in Clients : HasRoom(c)}
    /\ full = NoClient
    /\ hub' = HubIdle
    /\ Send' = FanOut(Send, served, message)
    /\ enq' = [c \in ConnIds |->
                 IF c \in served THEN Counted(enq[c], message.type) ELSE enq[c]]
    /\ delivered' = [c \in ConnIds |->
                       IF c \in served THEN delivered[c] \cup {message} ELSE delivered[c]]

\* case message := <-h.Broadcast of Hub.Run: the snapshot of h.Clients and the
\* loop over it.  The map is walked in any order; the walk stops at the first
\* client whose queue is full, where the default branch runs
\* h.Unregister <- client, a send that only Hub.Run itself could receive.
\* `served` are the clients the walk reached before that, and `full` is that
\* client (NoClient when no queue is full).
HubBroadcast(message, served, full) ==
    /\ hub.pc = "select"
    /\ served \subseteq {c \in Clients : HasRoom(c)}
    /\ IF \A c \in Clients : HasRoom(c)
       THEN /\ full = NoClient
            /\ served = Clients
            /\ hub' = HubIdle
       ELSE /\ full \in {c \in Clients : ~HasRoom(c)}
            /\ hub' = [HubIdle EXCEPT !.pc = "unregister_send", !.client = full,
                                      !.message = message]
    /\ Send' = FanOut(Send, served, message)
    /\ enq' = [c \in ConnIds |->
                 IF c \in served THEN Counted(enq[c], message.type) ELSE enq[c]]
    /\ delivered' = [c \in ConnIds |->
                       IF c \in served THEN delivered[c] \cup {message} ELSE delivered[c]]

\* h.BroadcastMessage(message): h.Broadcast <- data, received by Hub.Run
BroadcastMessage(message) ==
    \E served \in SUBSET ConnIds : \E full \in ConnIds \cup {NoClient} :
        HubBroadcast(message, served, full)

(***************************************************************************)
(* ServeWs.                                                                *)
(***************************************************************************)
\* a missing or invalid username: 400, no Client
ServeWsRefuse(c, u) ==
    /\ rp[c].pc = "none"
    /\ u = <<>> \/ ~validateUsername(u)
    /\ rp' = [rp EXCEPT ![c] = [ReadIdle EXCEPT !.pc = "refused"]]
    /\ http' = Exchange("/ws", c, u, 400, FALSE, 0)
    /\ UNCHANGED <<consumers, rejected, natsUp, sendCap, timerVariant, now, Clients, RoundActive, CurrentRoundID,
                   MessageLimiter, RoundMessages, hub, sched, countdown, winner,
                   Username, Send, SendClosed, connCloses, wp, nSent, stream, pubFailures, enq, delivered,
                   transport, regAtEnd>>

\* ServeWsRegister with a fault: the pumps are started and the client is not
\* handed to the Hub
ServeWsStartsPumps(c, u) ==
    /\ rp[c].pc = "none"
    /\ u # <<>> /\ validateUsername(u)
    /\ Username' = [Username EXCEPT ![c] = u]
    /\ rp' = [rp EXCEPT ![c] = ReadIdle]
    /\ wp' = [wp EXCEPT ![c] = "run"]
    /\ http' = Exchange("/ws", c, u, 101, FALSE, 0)
    /\ UNCHANGED <<consumers, rejected, natsUp, sendCap, timerVariant, now, Clients, RoundActive, CurrentRoundID,
                   MessageLimiter, RoundMessages, hub, sched, countdown, winner, Send,
                   SendClosed, connCloses, nSent, stream, pubFailures, enq, delivered, transport, regAtEnd>>

\* h.Register <- client, received by Hub.Run; then go ReadPump, go WritePump
ServeWsRegister(c, u) ==
    /\ rp[c].pc = "none"
    /\ u # <<>> /\ validateUsername(u)
    /\ hub.pc = "select"
    /\ Username' = [Username EXCEPT ![c] = u]
    /\ hub' = [HubIdle EXCEPT !.pc = "register", !.client = c]
    /\ rp' = [rp EXCEPT ![c] = ReadIdle]
    /\ wp' = [wp EXCEPT ![c] = "run"]
    /\ http' = Exchange("/ws", c, u, 101, FALSE, 0)
    /\ UNCHANGED <<consumers, rejected, natsUp, sendCap, timerVariant, now, Clients, RoundActive, CurrentRoundID,
                   MessageLimiter, RoundMessages, sched, countdown, winner, Send,
                   SendClosed, connCloses, nSent, stream, pubFailures, enq, delivered, transport, regAtEnd>>

(***************************************************************************)
(* Hub.Run.                                                                *)
(***************************************************************************)
\* HubRegister with a fault: the round_start frame is sent whether or not a
\* round is active
HubRegisterAlways ==
    /\ hub.pc = "register"
    /\ Clients' = Clients \cup {hub.client}
    /\ IF HasRoom(hub.client)
       THEN /\ Enqueue(hub.client, RoundStartFrame(CurrentRoundID))
            /\ hub' = HubIdle
       ELSE /\ hub' = [hub EXCEPT !.pc = "unregister_send"]
            /\ UNCHANGED <<Send, enq, delivered>>
    /\ UNCHANGED <<http, consumers, rejected, natsUp, sendCap, timerVariant, now, RoundActive, CurrentRoundID,
                   MessageLimiter, RoundMessages, sched, countdown, winner, Username,
                   SendClosed, connCloses, rp, wp, nSent, stream, pubFailures,
                   transport, regAtEnd>>

\* case client := <-h.Register of Hub.Run: the critical section, then
\* sendMessageToClient(client, round_start) when a round is active; a full
\* queue takes its default branch, h.Unregister <- client
HubRegister ==
    /\ hub.pc = "register"
    /\ Clients' = Clients \cup {hub.client}
    /\ IF ~RoundActive
       THEN /\ hub' = HubIdle
            /\ UNCHANGED <<Send, enq, delivered>>
       ELSE IF HasRoom(hub.client)
       THEN /\ Enqueue(hub.client, RoundStartFrame(CurrentRoundID))
            /\ hub' = HubIdle
       ELSE /\ hub' = [hub EXCEPT !.pc = "unregister_send"]
            /\ UNCHANGED <<Send, enq, delivered>>
    /\ UNCHANGED <<http, consumers, rejected, natsUp, sendCap, timerVariant, now, RoundActive, CurrentRoundID,
                   MessageLimiter, RoundMessages, sched, countdown, winner, Username,
                   SendClosed, connCloses, rp, wp, nSent, stream, pubFailures,
                   transport, regAtEnd>>

\* HubUnregister with a fault: the queue is closed and the client stays in the
\* registry
HubUnregisterKeeping(c) ==
    /\ hub.pc = "select"
    /\ rp[c].pc = "unregister"
    /\ IF c \in Clients
       THEN /\ SendClosed' = [SendClosed EXCEPT ![c] = TRUE]
            /\ UNCHANGED Clients
       ELSE UNCHANGED <<Clients, SendClosed>>
    /\ rp' = [rp EXCEPT ![c].pc = "done"]
    /\ connCloses' = [connCloses EXCEPT ![c] = @ + 1]
    /\ UNCHANGED <<http, consumers, rejected, natsUp, sendCap, timerVariant, now, RoundActive, CurrentRoundID,
                   MessageLimiter, RoundMessages, hub, sched, countdown, winner,
                   Username, Send, wp, nSent, stream, pubFailures, enq, delivered, transport, regAtEnd>>

\* case client := <-h.Unregister, sent by the deferred function of ReadPump,
\* which then closes the connection
HubUnregister(c) ==
    /\ hub.pc = "select"
    /\ rp[c].pc = "unregister"
    /\ IF c \in Clients
       THEN /\ Clients' = Clients \ {c}
            /\ SendClosed' = [SendClosed EXCEPT ![c] = TRUE]
       ELSE UNCHANGED <<Clients, SendClosed>>
    /\ rp' = [rp EXCEPT ![c].pc = "done"]
    /\ connCloses' = [connCloses EXCEPT ![c] = @ + 1]
    /\ UNCHANGED <<http, consumers, rejected, natsUp, sendCap, timerVariant, now, RoundActive, CurrentRoundID,
                   MessageLimiter, RoundMessages, hub, sched, countdown, winner,
                   Username, Send, wp, nSent, stream, pubFailures, enq, delivered, transport, regAtEnd>>

HubNext ==
    \/ HubRegister
    \/ \E c \in ConnIds : HubUnregister(c)

(***************************************************************************)
(* StartRoundTimer, StartRound, EndRound.                                  *)
(***************************************************************************)
\* StartRound, the critical section
StartRoundLock ==
    /\ RoundActive' = TRUE
    /\ CurrentRoundID' = now'
    /\ MessageLimiter' = {}
    /\ sched' = [sched EXCEPT !.pc = "start_broadcast", !.started = @ + 1]
    /\ UNCHANGED regAtEnd

\* EndRound, the critical section
EndRoundLock ==
    /\ RoundActive' = FALSE
    /\ sched' = [sched EXCEPT !.pc = "end_broadcast", !.roundID = CurrentRoundID,
                              !.ended = @ + 1]
    /\ regAtEnd' = Append(regAtEnd, [round |-> CurrentRoundID, clients |-> Clients])
    /\ UNCHANGED <<CurrentRoundID, MessageLimiter>>

\* h.StartRound() of StartRoundTimer: the first round, and in the 15 s version
\* the round that follows EndRound in the same tick
SchedStartRound ==
    /\ sched.pc = "start_lock"
    /\ now' = now
    /\ StartRoundLock
    /\ UNCHANGED <<http, consumers, rejected, natsUp, sendCap, timerVariant, Clients, RoundMessages, hub, countdown,
                   winner, Username, Send, SendClosed, connCloses, rp, wp, nSent,
                   stream, pubFailures, enq, delivered, transport>>

\* SchedTick with a fault: every tick starts a round, whether or not one is
\* active
SchedTickRestart ==
    /\ sched.pc = "wait"
    /\ sched.started < MaxRounds
    /\ now' = now + RoundSeconds(timerVariant)
    /\ StartRoundLock
    /\ UNCHANGED <<http, consumers, rejected, natsUp, sendCap, timerVariant, Clients, RoundMessages, hub, countdown,
                   winner, Username, Send, SendClosed, connCloses, rp, wp, nSent,
                   stream, pubFailures, enq, delivered, transport>>

\* case <-ticker.C: rounds.go ends the round when one is active and starts one
\* otherwise; the 15 s version ends the round and then starts the next
SchedTick ==
    /\ sched.pc = "wait"
    /\ sched.started < MaxRounds
    /\ now' = now + RoundSeconds(timerVariant)
    /\ IF timerVariant = "toggle" /\ ~RoundActive THEN StartRoundLock ELSE EndRoundLock
    /\ UNCHANGED <<http, consumers, rejected, natsUp, sendCap, timerVariant, Clients, RoundMessages, hub, countdown,
                   winner, Username, Send, SendClosed, connCloses, rp, wp, nSent,
                   stream, pubFailures, enq, delivered, transport>>

\* h.BroadcastMessage(round_info "Round %d started!...")
StartRoundBroadcast ==
    /\ sched.pc = "start_broadcast"
    /\ BroadcastMessage(RoundStartedInfo(CurrentRoundID))
    /\ sched' = [sched EXCEPT !.pc = "start_publish"]
    /\ UNCHANGED <<http, consumers, rejected, natsUp, sendCap, timerVariant, now, Clients, RoundActive,
                   CurrentRoundID, MessageLimiter, RoundMessages, countdown,
                   winner, Username, SendClosed, connCloses, rp, wp, nSent,
                   stream, pubFailures, transport, regAtEnd>>

\* h.publishRoundStartToNATS(); go h.StartCountdown()
StartRoundPublish(ok) ==
    /\ sched.pc = "start_publish"
    /\ Publish(StreamRecord("rounds.started", CurrentRoundID, <<>>, <<>>), ok)
    /\ countdown' = [countdown EXCEPT ![sched.started] =
                        [TaskIdle EXCEPT !.pc = "check", !.i = MaxCountdown,
                                         !.roundID = CurrentRoundID]]
    /\ sched' = [sched EXCEPT !.pc = "wait"]
    /\ UNCHANGED <<http, consumers, rejected, natsUp, sendCap, timerVariant, now, Clients, RoundActive, CurrentRoundID,
                   MessageLimiter, RoundMessages, hub, winner, Username, Send,
                   SendClosed, connCloses, rp, wp, nSent, enq, delivered, transport, regAtEnd>>

\* EndRound with a fault: go h.SelectWinner(roundID) runs before
\* h.publishRoundEndToNATS(roundID)
EndRoundBroadcastThenSelect ==
    /\ sched.pc = "end_broadcast"
    /\ BroadcastMessage(RoundEndedInfo(sched.roundID))
    /\ sched' = [sched EXCEPT !.pc = "end_publish"]
    /\ winner' = [winner EXCEPT ![sched.ended] =
                     [TaskIdle EXCEPT !.pc = "select", !.roundID = sched.roundID]]
    /\ UNCHANGED <<http, consumers, rejected, natsUp, sendCap, timerVariant, now, Clients, RoundActive,
                   CurrentRoundID, MessageLimiter, RoundMessages, countdown,
                   Username, SendClosed, connCloses, rp, wp, nSent,
                   stream, pubFailures, transport, regAtEnd>>

\* h.BroadcastMessage(round_info "Round %d ended!")
EndRoundBroadcast ==
    /\ sched.pc = "end_broadcast"
    /\ BroadcastMessage(RoundEndedInfo(sched.roundID))
    /\ sched' = [sched EXCEPT !.pc = "end_publish"]
    /\ UNCHANGED <<http, consumers, rejected, natsUp, sendCap, timerVariant, now, Clients, RoundActive,
                   CurrentRoundID, MessageLimiter, RoundMessages, countdown,
                   winner, Username, SendClosed, connCloses, rp, wp, nSent,
                   stream, pubFailures, transport, regAtEnd>>

\* h.publishRoundEndToNATS(roundID); go h.SelectWinner(roundID)
EndRoundPublish(ok) ==
    /\ sched.pc = "end_publish"
    /\ Publish(StreamRecord("rounds.ended", sched.roundID, <<>>, <<>>), ok)
    /\ winner' = [winner EXCEPT ![sched.ended] =
                     [TaskIdle EXCEPT !.pc = "select", !.roundID = sched.roundID]]
    /\ sched' = [sched EXCEPT !.pc = IF timerVariant = "toggle" THEN "wait" ELSE "start_lock"]
    /\ UNCHANGED <<http, consumers, rejected, natsUp, sendCap, timerVariant, now, Clients, RoundActive, CurrentRoundID,
                   MessageLimiter, RoundMessages, hub, countdown, Username, Send,
                   SendClosed, connCloses, rp, wp, nSent, enq, delivered, transport, regAtEnd>>

SchedNext ==
    \/ SchedStartRound
    \/ SchedTick
    \/ StartRoundBroadcast
    \/ \E ok \in BOOLEAN : StartRoundPublish(ok)
    \/ EndRoundBroadcast
    \/ \E ok \in BOOLEAN : EndRoundPublish(ok)

(***************************************************************************)
(* StartCountdown.                                                         *)
(***************************************************************************)
\* the check of h.RoundActive under the mutex at the top of each iteration
CountdownCheck(k) ==
    /\ countdown[k].pc = "check"
    /\ countdown' = [countdown EXCEPT ![k].pc = IF RoundActive THEN "broadcast" ELSE "done"]
    /\ UNCHANGED <<http, consumers, rejected, natsUp, sendCap, timerVariant, now, Clients, RoundActive, CurrentRoundID,
                   MessageLimiter, RoundMessages, hub, sched, winner, Username, Send,
                   SendClosed, connCloses, rp, wp, nSent, stream, pubFailures, enq, delivered, transport,
                   regAtEnd>>

\* h.BroadcastMessage(countdown i); time.Sleep; i--
CountdownBroadcast(k) ==
    /\ countdown[k].pc = "broadcast"
    /\ BroadcastMessage(CountdownFrame(countdown[k].i))
    /\ countdown' = [countdown EXCEPT ![k].i = @ - 1,
                                      ![k].pc = IF countdown[k].i - 1 >= 1
                                                THEN "check" ELSE "done"]
    /\ UNCHANGED <<http, consumers, rejected, natsUp, sendCap, timerVariant, now, Clients, RoundActive,
                   CurrentRoundID, MessageLimiter, RoundMessages, sched, winner,
                   Username, SendClosed, connCloses, rp, wp, nSent, stream,
                   pubFailures, transport, regAtEnd>>

CountdownNext ==
    \/ \E k \in RoundNumbers : CountdownCheck(k)
    \/ \E k \in RoundNumbers : CountdownBroadcast(k)

(***************************************************************************)
(* SelectWinner (in-memory), cleanupOldMessages.                           *)
(***************************************************************************)
keepRounds == 3

\* WinnerCandidates with a fault: the buffer of h.CurrentRoundID is read
CurrentRoundCandidates(roundID) ==
    IF CurrentRoundID \in DOMAIN RoundMessages THEN RoundMessages[CurrentRoundID] ELSE <<>>

\* the entries SelectWinner(roundID) draws from: h.RoundMessages[roundID]
WinnerCandidates(roundID) ==
    IF roundID \in DOMAIN RoundMessages THEN RoundMessages[roundID] ELSE <<>>

\* SelectWinner, the critical section: idx is rand.Intn(len(messages)) + 1
SelectWinnerPick(k, idx) ==
    /\ winner[k].pc = "select"
    /\ LET messages == WinnerCandidates(winner[k].roundID) IN
       IF Len(messages) = 0
       THEN /\ idx = 1
            /\ winner' = [winner EXCEPT ![k].pc = "broadcast",
                                        ![k].frame = NoWinnerFrame(winner[k].roundID)]
       ELSE /\ idx \in 1..Len(messages)
            /\ winner' = [winner EXCEPT
                            ![k].pc = "broadcast",
                            ![k].picked = TRUE,
                            ![k].won = messages[idx],
                            ![k].frame = WinnerFrame(winner[k].roundID, messages[idx],
                                                     Len(messages))]
    /\ UNCHANGED <<http, consumers, rejected, natsUp, sendCap, timerVariant, now, Clients, RoundActive, CurrentRoundID,
                   MessageLimiter, RoundMessages, hub, sched, countdown, Username,
                   Send, SendClosed, connCloses, rp, wp, nSent, stream, pubFailures, enq, delivered,
                   transport, regAtEnd>>

\* SelectWinnerBroadcast with a fault: nothing is announced when there is no
\* stream
SelectWinnerBroadcastIfStream(k) ==
    /\ winner[k].pc = "broadcast"
    /\ IF natsUp THEN BroadcastMessage(winner[k].frame)
       ELSE UNCHANGED <<hub, Send, enq, delivered>>
    /\ winner' = [winner EXCEPT ![k].pc = IF winner[k].picked THEN "publish" ELSE "done",
                                ![k].announced = IF natsUp THEN @ + 1 ELSE @]
    /\ UNCHANGED <<http, consumers, rejected, natsUp, sendCap, timerVariant, now, Clients, RoundActive,
                   CurrentRoundID, MessageLimiter, RoundMessages, sched,
                   countdown, Username, SendClosed, connCloses, rp, wp, nSent,
                   stream, pubFailures, transport, regAtEnd>>

\* h.BroadcastMessage(announcement) or h.BroadcastMessage(noWinnerMessage)
SelectWinnerBroadcast(k) ==
    /\ winner[k].pc = "broadcast"
    /\ BroadcastMessage(winner[k].frame)
    /\ winner' = [winner EXCEPT ![k].pc = IF winner[k].picked THEN "publish" ELSE "done",
                                ![k].announced = @ + 1]
    /\ UNCHANGED <<http, consumers, rejected, natsUp, sendCap, timerVariant, now, Clients, RoundActive,
                   CurrentRoundID, MessageLimiter, RoundMessages, sched,
                   countdown, Username, SendClosed, connCloses, rp, wp, nSent,
                   stream, pubFailures, transport, regAtEnd>>

\* h.publishWinnerToNATS(roundID, winnerData)
SelectWinnerPublish(k, ok) ==
    /\ winner[k].pc = "publish"
    /\ Publish(StreamRecord("winners", winner[k].roundID, winner[k].won.Username,
                            winner[k].won.Message), ok)
    /\ winner' = [winner EXCEPT ![k].pc = "cleanup"]
    /\ UNCHANGED <<http, consumers, rejected, natsUp, sendCap, timerVariant, now, Clients, RoundActive, CurrentRoundID,
                   MessageLimiter, RoundMessages, hub, sched, countdown, Username,
                   Send, SendClosed, connCloses, rp, wp, nSent, enq, delivered, transport,
                   regAtEnd>>

\* cleanupOldMessages with a fault: the rounds below the threshold are deleted
\* however many rounds the buffer holds
cleanupRegardless(buffer, currentRoundID) ==
    [id \in {r \in DOMAIN buffer : ~(r < currentRoundID - (keepRounds - 1))} |-> buffer[id]]

\* cleanupOldMessages: the buffer it leaves
cleanupOldMessages(buffer, currentRoundID) ==
    IF Cardinality(DOMAIN buffer) > keepRounds
    THEN [id \in {r \in DOMAIN buffer : ~(r < currentRoundID - (keepRounds - 1))}
            |-> buffer[id]]
    ELSE buffer

\* h.cleanupOldMessages(roundID)
SelectWinnerCleanup(k) ==
    /\ winner[k].pc = "cleanup"
    /\ RoundMessages' = cleanupOldMessages(RoundMessages, winner[k].roundID)
    /\ winner' = [winner EXCEPT ![k].pc = "done"]
    /\ UNCHANGED <<http, consumers, rejected, natsUp, sendCap, timerVariant, now, Clients, RoundActive, CurrentRoundID,
                   MessageLimiter, hub, sched, countdown, Username, Send, SendClosed,
                   connCloses, rp, wp, nSent, stream, pubFailures, enq, delivered, transport, regAtEnd>>

\* who holds a consumer: the history handler, or the SelectWinner goroutine of
\* round number k (consumer names carry the round id and time.Now().UnixNano())
ApiCaller == <<"api", 0>>
Selector(k) == <<"select", k>>

\* a call on the JetStream context or on a subscription, for the consumer that
\* `owner` created on `on`
Call(name, on, owner) == [call |-> name, stream |-> on, owner |-> owner]

\* what JetStream holds after one call: AddConsumer creates the consumer,
\* PullSubscribe binds a subscription to it, Unsubscribe and DeleteConsumer
\* release them
AfterCall(held, c) ==
    CASE c.call = "AddConsumer" ->
            held \cup {[kind |-> "consumer", stream |-> c.stream, owner |-> c.owner]}
      [] c.call = "PullSubscribe" ->
            held \cup {[kind |-> "subscription", stream |-> c.stream, owner |-> c.owner]}
      [] c.call = "Unsubscribe" ->
            held \ {[kind |-> "subscription", stream |-> c.stream, owner |-> c.owner]}
      [] c.call = "DeleteConsumer" ->
            held \ {[kind |-> "consumer", stream |-> c.stream, owner |-> c.owner]}

\* what JetStream holds after a sequence of calls
RECURSIVE AfterCalls(_, _)
AfterCalls(held, calls) ==
    IF calls = <<>> THEN held ELSE AfterCalls(AfterCall(held, Head(calls)), Tail(calls))

(***************************************************************************)
(* SelectWinner reading the round's submissions from the MESSAGES stream.  *)
(***************************************************************************)
\* what the stream client does for SelectWinner in one call
SelectFaults == {"AddConsumer", "PullSubscribe", "Fetch", "ErrTimeout", "Unmarshal", "none"}

\* the records sub.Fetch returns for the round
StreamMessages(roundID, fault) ==
    IF fault = "ErrTimeout" THEN <<>>
    ELSE SelectSeq(stream, LAMBDA r : r.kind = "messages" /\ r.round = roundID)

\* SelectCalls with a fault: the consumer of a failed Fetch is left behind
SelectCallsLeaking(k, fault) ==
    IF fault = "AddConsumer" THEN <<>>
    ELSE IF fault = "PullSubscribe"
    THEN <<Call("AddConsumer", "MESSAGES", Selector(k)), Call("DeleteConsumer", "MESSAGES", Selector(k))>>
    ELSE <<Call("AddConsumer", "MESSAGES", Selector(k)), Call("PullSubscribe", "MESSAGES", Selector(k))>>

\* the calls of SelectWinner up to its Fetch, and up to its return where it
\* returns without broadcasting
SelectCalls(k, fault) ==
    IF fault = "AddConsumer" THEN <<>>
    ELSE IF fault = "PullSubscribe"
    THEN <<Call("AddConsumer", "MESSAGES", Selector(k)), Call("DeleteConsumer", "MESSAGES", Selector(k))>>
    ELSE IF fault \in {"Fetch", "Unmarshal"}
    THEN <<Call("AddConsumer", "MESSAGES", Selector(k)), Call("PullSubscribe", "MESSAGES", Selector(k)),
           Call("Unsubscribe", "MESSAGES", Selector(k)), Call("DeleteConsumer", "MESSAGES", Selector(k))>>
    ELSE <<Call("AddConsumer", "MESSAGES", Selector(k)), Call("PullSubscribe", "MESSAGES", Selector(k))>>

\* the deferred release, run when SelectWinner returns
SelectRelease(k) ==
    <<Call("Unsubscribe", "MESSAGES", Selector(k)), Call("DeleteConsumer", "MESSAGES", Selector(k))>>

\* SelectWinner from the sleep to the first call that can block: idx is
\* rand.Intn(len(msgs)) + 1
StreamSelectWinnerFetch(k, fault, idx) ==
    /\ winner[k].pc = "select"
    /\ IF ~natsUp
       THEN /\ fault = "none" /\ idx = 1
            /\ winner' = [winner EXCEPT ![k].pc = "announce", ![k].frame = FallbackText]
            /\ UNCHANGED consumers
       ELSE LET msgs == StreamMessages(winner[k].roundID, fault) IN
            /\ consumers' = AfterCalls(consumers, SelectCalls(k, fault))
            /\ IF fault \in {"AddConsumer", "PullSubscribe", "Fetch"}
               THEN /\ idx = 1
                    /\ winner' = [winner EXCEPT ![k].pc = "done"]
               ELSE IF Len(msgs) = 0
               THEN /\ idx = 1 /\ fault # "Unmarshal"
                    /\ winner' = [winner EXCEPT ![k].pc = "announce",
                                                ![k].frame = NoMessagesText]
               ELSE /\ idx \in 1..Len(msgs)
                    /\ winner' =
                          IF fault = "Unmarshal" THEN [winner EXCEPT ![k].pc = "done"]
                          ELSE [winner EXCEPT
                                  ![k].pc = "record",
                                  ![k].picked = TRUE,
                                  ![k].won = [Username |-> msgs[idx].username,
                                              Message |-> msgs[idx].content,
                                              Timestamp |-> 0],
                                  ![k].frame = SelectedText(msgs[idx].username,
                                                            msgs[idx].content)]
    /\ UNCHANGED <<http, rejected, natsUp, sendCap, timerVariant, now, Clients, RoundActive, CurrentRoundID,
                   MessageLimiter, RoundMessages, hub, sched, countdown, Username,
                   Send, SendClosed, connCloses, rp, wp, nSent, stream, pubFailures, enq, delivered,
                   transport, regAtEnd>>

\* h.publishWinnerToNATS(roundID, messageData)
StreamSelectWinnerPublish(k, ok) ==
    /\ winner[k].pc = "record"
    /\ Publish(StreamRecord("winners", winner[k].roundID, winner[k].won.Username,
                            winner[k].won.Message), ok)
    /\ winner' = [winner EXCEPT ![k].pc = "announce"]
    /\ UNCHANGED <<http, consumers, rejected, natsUp, sendCap, timerVariant, now, Clients, RoundActive, CurrentRoundID,
                   MessageLimiter, RoundMessages, hub, sched, countdown, Username,
                   Send, SendClosed, connCloses, rp, wp, nSent, enq, delivered, transport,
                   regAtEnd>>

\* h.BroadcastMessage(winnerMessage), and the return with its deferred release
StreamSelectWinnerBroadcast(k) ==
    /\ winner[k].pc = "announce"
    /\ BroadcastMessage(winner[k].frame)
    /\ consumers' = AfterCalls(consumers, SelectRelease(k))
    /\ winner' = [winner EXCEPT ![k].pc = "done", ![k].announced = @ + 1]
    /\ UNCHANGED <<http, rejected, natsUp, sendCap, timerVariant, now, Clients, RoundActive,
                   CurrentRoundID, MessageLimiter, RoundMessages, sched,
                   countdown, Username, SendClosed, connCloses, rp, wp, nSent,
                   stream, pubFailures, transport, regAtEnd>>

StreamWinnerNext ==
    \/ \E k \in RoundNumbers : \E fault \in SelectFaults :
          \E idx \in 1..(MaxMsgs * Cardinality(ConnIds)) : StreamSelectWinnerFetch(k, fault, idx)
    \/ \E k \in RoundNumbers : \E ok \in BOOLEAN : StreamSelectWinnerPublish(k, ok)
    \/ \E k \in RoundNumbers : StreamSelectWinnerBroadcast(k)

WinnerNext ==
    \/ \E k \in RoundNumbers : \E idx \in 1..(MaxMsgs * Cardinality(ConnIds)) :
          SelectWinnerPick(k, idx)
    \/ \E k \in RoundNumbers : SelectWinnerBroadcast(k)
    \/ \E k \in RoundNumbers : \E ok \in BOOLEAN : SelectWinnerPublish(k, ok)
    \/ \E k \in RoundNumbers : SelectWinnerCleanup(k)

(***************************************************************************)
(* ReadPump, HandleClientMessage, ProcessMessage.                          *)
(***************************************************************************)
RECURSIVE SumOver(_, _)
SumOver(f, S) == IF S = {} THEN 0
                 ELSE LET x == CHOOSE y \in S : TRUE IN f[x] + SumOver(f, S \ {x})

\* envelopes read from all connections so far
TotalSent == SumOver(nSent, ConnIds)

ToError(c, text) == [rp EXCEPT ![c].pc = "send_error", ![c].text = text]

\* the checks HandleClientMessage makes after marking the limiter
DataVerdict(data) ==
    IF data = <<>> THEN "Invalid message data"
    ELSE IF ~validateMessageContent(data)
         THEN "Invalid message content: must be 1-500 characters"
         ELSE "ok"

\* client.Conn.ReadJSON(&message) returns an envelope; HandleClientMessage
\* looks at its type and, for a client_message, at h.RoundActive, which it
\* reads without the mutex
ReadEnvelope(c, e) ==
    /\ rp[c].pc = "read"
    /\ connCloses[c] = 0
    /\ TotalSent < MaxMsgs
    /\ WireSize(e) <= readLimit
    /\ nSent' = [nSent EXCEPT ![c] = @ + 1]
    /\ LET verdict == IF e.type = NoValue THEN ToError(c, "Invalid message format")
                      ELSE IF e.type # "client_message"
                           THEN ToError(c, "Unknown message type")
                      ELSE IF ~RoundActive THEN ToError(c, "No active round")
                      ELSE [rp EXCEPT ![c].pc = "limiter"]
       IN rp' = [verdict EXCEPT ![c].msg = e]
    /\ UNCHANGED <<http, consumers, rejected, natsUp, sendCap, timerVariant, now, Clients, RoundActive, CurrentRoundID,
                   MessageLimiter, RoundMessages, hub, sched, countdown, winner,
                   Username, Send, SendClosed, connCloses, wp, stream, pubFailures, enq,
                   delivered, transport, regAtEnd>>

\* the check and mark of h.MessageLimiter under the mutex, then the data checks
CheckLimiter(c) ==
    /\ rp[c].pc = "limiter"
    /\ IF Username[c] \in MessageLimiter
       THEN /\ rp' = ToError(c, "You have already submitted a message for this round")
            /\ UNCHANGED <<MessageLimiter, rejected>>
       ELSE /\ MessageLimiter' = MessageLimiter \cup {Username[c]}
            /\ rp' = IF DataVerdict(rp[c].msg.data) = "ok"
                     THEN [rp EXCEPT ![c].pc = "process"]
                     ELSE ToError(c, DataVerdict(rp[c].msg.data))
            /\ rejected' = IF DataVerdict(rp[c].msg.data) = "ok" THEN rejected
                           ELSE rejected \cup {<<Username[c], CurrentRoundID>>}
    /\ UNCHANGED <<http, consumers, natsUp, sendCap, timerVariant, now, Clients, RoundActive, CurrentRoundID,
                   RoundMessages, hub, sched, countdown, winner, Username, Send,
                   SendClosed, connCloses, wp, nSent, stream, pubFailures, enq, delivered, transport, regAtEnd>>

\* ProcessMessage: currentRoundID := h.CurrentRoundID under the mutex
ProcessMessage(c) ==
    /\ rp[c].pc = "process"
    /\ rp' = [rp EXCEPT ![c].pc = "add", ![c].roundID = CurrentRoundID]
    /\ UNCHANGED <<http, consumers, rejected, natsUp, sendCap, timerVariant, now, Clients, RoundActive, CurrentRoundID,
                   MessageLimiter, RoundMessages, hub, sched, countdown, winner,
                   Username, Send, SendClosed, connCloses, wp, nSent, stream, pubFailures, enq, delivered,
                   transport, regAtEnd>>

\* the buffer after addRoundMessage(roundID, username, messageText)
addRoundMessage(buffer, roundID, username, messageText) ==
    LET roundMsg == [Username |-> username, Message |-> messageText, Timestamp |-> now]
        old == IF roundID \in DOMAIN buffer THEN buffer[roundID] ELSE <<>>
    IN [id \in DOMAIN buffer \cup {roundID} |->
          IF id = roundID THEN Append(old, roundMsg) ELSE buffer[id]]

\* h.addRoundMessage(currentRoundID, client.Username, content)
AddRoundMessage(c) ==
    /\ rp[c].pc = "add"
    /\ RoundMessages' = addRoundMessage(RoundMessages, rp[c].roundID, Username[c],
                                        rp[c].msg.data)
    /\ rp' = [rp EXCEPT ![c].pc = "send_ack"]
    /\ UNCHANGED <<http, consumers, rejected, natsUp, sendCap, timerVariant, now, Clients, RoundActive, CurrentRoundID,
                   MessageLimiter, hub, sched, countdown, winner, Username, Send,
                   SendClosed, connCloses, wp, nSent, stream, pubFailures, enq, delivered, transport, regAtEnd>>

\* h.SendAckMessage(client): client.Send <- data blocks while the queue is full
SendAckMessage(c) ==
    /\ rp[c].pc = "send_ack"
    /\ HasRoom(c)
    /\ Enqueue(c, AckFrame)
    /\ rp' = [rp EXCEPT ![c].pc = "publish"]
    /\ UNCHANGED <<http, consumers, rejected, natsUp, sendCap, timerVariant, now, Clients, RoundActive, CurrentRoundID,
                   MessageLimiter, RoundMessages, hub, sched, countdown, winner,
                   Username, SendClosed, connCloses, wp, nSent, stream, pubFailures, transport,
                   regAtEnd>>

\* PublishMessage with a fault: a record that is not published is reported to
\* the client as an error
PublishMessageOrError(c, ok) ==
    /\ rp[c].pc = "publish"
    /\ Publish(StreamRecord("messages", CurrentRoundID, Username[c], rp[c].msg.data), ok)
    /\ IF natsUp /\ ok
       THEN UNCHANGED <<Send, enq, delivered>>
       ELSE HasRoom(c) /\ Enqueue(c, ErrorFrame("Message could not be published"))
    /\ rp' = [rp EXCEPT ![c] = ReadIdle]
    /\ UNCHANGED <<http, consumers, rejected, natsUp, sendCap, timerVariant, now, Clients, RoundActive, CurrentRoundID,
                   MessageLimiter, RoundMessages, hub, sched, countdown, winner,
                   Username, SendClosed, connCloses, wp, nSent, transport, regAtEnd>>

\* h.publishMessageToNATS(client, content): the subject is built from
\* h.CurrentRoundID read without the mutex
PublishMessage(c, ok) ==
    /\ rp[c].pc = "publish"
    /\ Publish(StreamRecord("messages", CurrentRoundID, Username[c], rp[c].msg.data), ok)
    /\ rp' = [rp EXCEPT ![c] = ReadIdle]
    /\ UNCHANGED <<http, consumers, rejected, natsUp, sendCap, timerVariant, now, Clients, RoundActive, CurrentRoundID,
                   MessageLimiter, RoundMessages, hub, sched, countdown, winner,
                   Username, Send, SendClosed, connCloses, wp, nSent, enq, delivered, transport,
                   regAtEnd>>

\* SendErrorMessage with a fault: after the reply the connection is given up
SendErrorMessageAndLeave(c) ==
    /\ rp[c].pc = "send_error"
    /\ HasRoom(c)
    /\ Enqueue(c, ErrorFrame(rp[c].text))
    /\ rp' = [rp EXCEPT ![c] = [ReadIdle EXCEPT !.pc = "unregister"]]
    /\ UNCHANGED <<http, consumers, rejected, natsUp, sendCap, timerVariant, now, Clients, RoundActive, CurrentRoundID,
                   MessageLimiter, RoundMessages, hub, sched, countdown, winner,
                   Username, SendClosed, connCloses, wp, nSent, stream, pubFailures, transport,
                   regAtEnd>>

\* h.SendErrorMessage(client, text): client.Send <- data blocks while the queue
\* is full
SendErrorMessage(c) ==
    /\ rp[c].pc = "send_error"
    /\ HasRoom(c)
    /\ Enqueue(c, ErrorFrame(rp[c].text))
    /\ rp' = [rp EXCEPT ![c] = ReadIdle]
    /\ UNCHANGED <<http, consumers, rejected, natsUp, sendCap, timerVariant, now, Clients, RoundActive, CurrentRoundID,
                   MessageLimiter, RoundMessages, hub, sched, countdown, winner,
                   Username, SendClosed, connCloses, wp, nSent, stream, pubFailures, transport,
                   regAtEnd>>

\* ReadFails with a fault: the pump closes the connection and returns, no
\* unregister request is made
ReadFailsWithoutUnregister(c) ==
    /\ rp[c].pc = "read"
    /\ rp' = [rp EXCEPT ![c].pc = "done"]
    /\ connCloses' = [connCloses EXCEPT ![c] = @ + 1]
    /\ UNCHANGED <<http, consumers, rejected, natsUp, sendCap, timerVariant, now, Clients, RoundActive, CurrentRoundID,
                   MessageLimiter, RoundMessages, hub, sched, countdown, winner,
                   Username, Send, SendClosed, wp, nSent, stream, pubFailures, enq, delivered,
                   transport, regAtEnd>>

\* ReadJSON returns an error (the peer went away, the deadline passed, or the
\* connection was closed by WritePump): break, then the deferred function
ReadFails(c) ==
    /\ rp[c].pc = "read"
    /\ rp' = [rp EXCEPT ![c].pc = "unregister"]
    /\ UNCHANGED <<http, consumers, rejected, natsUp, sendCap, timerVariant, now, Clients, RoundActive, CurrentRoundID,
                   MessageLimiter, RoundMessages, hub, sched, countdown, winner,
                   Username, Send, SendClosed, connCloses, wp, nSent, stream, pubFailures, enq, delivered,
                   transport, regAtEnd>>

\* the peer sends a frame of more than readLimit bytes: ReadJSON returns
\* ErrReadLimit and nothing is decoded (msg keeps the envelope that was on the
\* wire); break, then the deferred function
ReadTooLarge(c, e) ==
    /\ rp[c].pc = "read"
    /\ connCloses[c] = 0
    /\ TotalSent < MaxMsgs
    /\ WireSize(e) > readLimit
    /\ nSent' = [nSent EXCEPT ![c] = @ + 1]
    /\ rp' = [rp EXCEPT ![c].pc = "unregister", ![c].msg = e]
    /\ UNCHANGED <<http, consumers, rejected, natsUp, sendCap, timerVariant, now, Clients, RoundActive, CurrentRoundID,
                   MessageLimiter, RoundMessages, hub, sched, countdown, winner,
                   Username, Send, SendClosed, connCloses, wp, stream, pubFailures, enq,
                   delivered, transport, regAtEnd>>

ReadPumpNext ==
    \/ \E c \in ConnIds : \E e \in Envelopes : ReadEnvelope(c, e)
    \/ \E c \in ConnIds : \E e \in Envelopes : ReadTooLarge(c, e)
    \/ \E c \in ConnIds : CheckLimiter(c)
    \/ \E c \in ConnIds : ProcessMessage(c)
    \/ \E c \in ConnIds : AddRoundMessage(c)
    \/ \E c \in ConnIds : SendAckMessage(c)
    \/ \E c \in ConnIds : \E ok \in BOOLEAN : PublishMessage(c, ok)
    \/ \E c \in ConnIds : SendErrorMessage(c)
    \/ \E c \in ConnIds : ReadFails(c)

(***************************************************************************)
(* WritePump.                                                              *)
(***************************************************************************)
\* WriteBatch with a fault: the frames of one write are written newest first
WriteBatchNewestFirst(queue, n) == [i \in 1..(n + 1) |-> queue[n + 2 - i]]

\* the frames one pass of the loop writes: the frame received from client.Send
\* and the n = len(client.Send) frames queued behind it
WriteBatch(queue, n) == SubSeq(queue, 1, n + 1)

SeqsOf(frames) == [i \in 1..Len(frames) |-> frames[i].seq]

\* case message, ok := <-client.Send with ok: NextWriter, the writes, w.Close()
WritePumpWrite(c, n) ==
    /\ wp[c] = "run"
    /\ connCloses[c] = 0
    /\ Send[c] # <<>>
    /\ n \in 0..(Len(Send[c]) - 1)
    /\ transport' = [transport EXCEPT ![c] = Append(@, SeqsOf(WriteBatch(Send[c], n)))]
    /\ Send' = [Send EXCEPT ![c] = SubSeq(@, n + 2, Len(@))]
    /\ UNCHANGED <<http, consumers, rejected, natsUp, sendCap, timerVariant, now, Clients, RoundActive, CurrentRoundID,
                   MessageLimiter, RoundMessages, hub, sched, countdown, winner,
                   Username, SendClosed, connCloses, rp, wp, nSent, stream, pubFailures, enq, delivered,
                   regAtEnd>>

\* WritePumpWriteFails with a fault: the pump goes on with its loop and keeps
\* the frame
WritePumpWriteRetries(c) ==
    /\ wp[c] = "run"
    /\ Send[c] # <<>>
    /\ UNCHANGED vars

\* the same case when NextWriter fails: the frame received is lost, return
WritePumpWriteFails(c) ==
    /\ wp[c] = "run"
    /\ Send[c] # <<>>
    /\ Send' = [Send EXCEPT ![c] = Tail(@)]
    /\ wp' = [wp EXCEPT ![c] = "done"]
    /\ connCloses' = [connCloses EXCEPT ![c] = @ + 1]
    /\ UNCHANGED <<http, consumers, rejected, natsUp, sendCap, timerVariant, now, Clients, RoundActive, CurrentRoundID,
                   MessageLimiter, RoundMessages, hub, sched, countdown, winner,
                   Username, SendClosed, rp, nSent, stream, pubFailures, enq, delivered, transport, regAtEnd>>

\* WritePumpChannelClosed with a fault: the pump returns and leaves the
\* connection to the read pump
WritePumpLeavesOpen(c) ==
    /\ wp[c] = "run"
    /\ Send[c] = <<>>
    /\ SendClosed[c]
    /\ wp' = [wp EXCEPT ![c] = "done"]
    /\ UNCHANGED <<http, consumers, rejected, natsUp, sendCap, timerVariant, now, Clients, RoundActive, CurrentRoundID,
                   MessageLimiter, RoundMessages, hub, sched, countdown, winner,
                   Username, Send, SendClosed, connCloses, rp, nSent, stream, pubFailures, enq,
                   delivered, transport, regAtEnd>>

\* the same case with !ok: the Hub closed the channel and it is drained
WritePumpChannelClosed(c) ==
    /\ wp[c] = "run"
    /\ Send[c] = <<>>
    /\ SendClosed[c]
    /\ wp' = [wp EXCEPT ![c] = "done"]
    /\ connCloses' = [connCloses EXCEPT ![c] = @ + 1]
    /\ UNCHANGED <<http, consumers, rejected, natsUp, sendCap, timerVariant, now, Clients, RoundActive, CurrentRoundID,
                   MessageLimiter, RoundMessages, hub, sched, countdown, winner,
                   Username, Send, SendClosed, rp, nSent, stream, pubFailures, enq, delivered, transport,
                   regAtEnd>>

\* case <-ticker.C when the ping cannot be written: return
WritePumpPingFails(c) ==
    /\ wp[c] = "run"
    /\ wp' = [wp EXCEPT ![c] = "done"]
    /\ connCloses' = [connCloses EXCEPT ![c] = @ + 1]
    /\ UNCHANGED <<http, consumers, rejected, natsUp, sendCap, timerVariant, now, Clients, RoundActive, CurrentRoundID,
                   MessageLimiter, RoundMessages, hub, sched, countdown, winner,
                   Username, Send, SendClosed, rp, nSent, stream, pubFailures, enq, delivered, transport,
                   regAtEnd>>

WritePumpNext ==
    \/ \E c \in ConnIds : \E n \in 0..(Len(Send[c]) - 1) : WritePumpWrite(c, n)
    \/ \E c \in ConnIds : WritePumpWriteFails(c)
    \/ \E c \in ConnIds : WritePumpChannelClosed(c)
    \/ \E c \in ConnIds : WritePumpPingFails(c)

ServeWsNext ==
    \/ \E c \in ConnIds : \E u \in UsernameInputs(c) : ServeWsRefuse(c, u)
    \/ \E c \in ConnIds : \E u \in UsernameInputs(c) : ServeWsRegister(c, u)

(***************************************************************************)
(* GET /api/rounds/{id}.                                                   *)
(***************************************************************************)
\* the pattern the handler is registered under
ApiPrefix == <<"/", "a", "p", "i", "/", "r", "o", "u", "n", "d", "s", "/">>

Digits == <<"0", "1", "2", "3", "4", "5", "6", "7", "8", "9">>

\* fmt.Sprintf("%d", n) for n >= 0
RECURSIVE FormatInt(_)
FormatInt(n) == IF n < 10 THEN <<Digits[n + 1]>>
                ELSE Append(FormatInt(n \div 10), Digits[(n % 10) + 1])

\* the paths requested
ApiPaths == {ApiPrefix, ApiPrefix \o <<"x">>, ApiPrefix \o FormatInt(StartEpoch)}

\* what the stream client does in one request: a call that returns an error,
\* a Fetch that returns ErrTimeout, or no fault
ApiFaults == {"AddConsumer", "PullSubscribe", "Fetch", "ErrTimeout", "none"}

\* sub.Fetch(100, ...)
fetchBatch == 100

\* the records Fetch returns for the consumer filtered on messages.{roundID}
Fetched(roundID, fault) ==
    LET held == {i \in 1..Len(stream) : /\ stream[i].kind = "messages"
                                         /\ FormatInt(stream[i].round) = roundID}
    IN IF fault = "ErrTimeout" THEN 0
       ELSE IF Cardinality(held) > fetchBatch THEN fetchBatch ELSE Cardinality(held)

\* what the stream client does for the winner of the round in one request
ApiWinnerFaults == {"AddConsumer", "PullSubscribe", "Fetch", "ErrTimeout", "Unmarshal", "none"}

\* the calls of the handler for the winner consumer, and those it defers, in
\* the order the deferred calls run
ApiWinnerCalls(wfault) ==
    IF wfault = "AddConsumer" THEN <<>>
    ELSE IF wfault = "PullSubscribe"
    THEN <<Call("AddConsumer", "WINNERS", ApiCaller), Call("DeleteConsumer", "WINNERS", ApiCaller)>>
    ELSE <<Call("AddConsumer", "WINNERS", ApiCaller), Call("PullSubscribe", "WINNERS", ApiCaller),
           Call("Unsubscribe", "WINNERS", ApiCaller), Call("DeleteConsumer", "WINNERS", ApiCaller)>>

\* the calls the handler makes once it has the round id, up to its return:
\* the messages consumer, the winner consumer, and the deferred releases
ApiCalls(fault, wfault) ==
    IF fault = "AddConsumer" THEN <<>>
    ELSE IF fault = "PullSubscribe"
    THEN <<Call("AddConsumer", "MESSAGES", ApiCaller), Call("DeleteConsumer", "MESSAGES", ApiCaller)>>
    ELSE IF fault = "Fetch"
    THEN <<Call("AddConsumer", "MESSAGES", ApiCaller), Call("PullSubscribe", "MESSAGES", ApiCaller),
           Call("Unsubscribe", "MESSAGES", ApiCaller), Call("DeleteConsumer", "MESSAGES", ApiCaller)>>
    ELSE <<Call("AddConsumer", "MESSAGES", ApiCaller), Call("PullSubscribe", "MESSAGES", ApiCaller)>>
         \o ApiWinnerCalls(wfault)
         \o <<Call("Unsubscribe", "MESSAGES", ApiCaller), Call("DeleteConsumer", "MESSAGES", ApiCaller)>>

\* JetStream after a request for `path`
ApiReleased(path, fault) ==
    IF ~natsUp \/ Len(path) <= Len(ApiPrefix) THEN {consumers}
    ELSE {AfterCalls(consumers, ApiCalls(fault, wfault)) : wfault \in ApiWinnerFaults}

\* ApiRounds with a fault: the path is looked at before the stream handle
ApiRoundsPathFirst(path, fault) ==
    /\ http' =
          IF Len(path) <= Len(ApiPrefix)
          THEN Exchange("/api/rounds/", NoClient, path, 400, FALSE, 0)
          ELSE IF ~natsUp THEN Exchange("/api/rounds/", NoClient, path, 503, FALSE, 0)
          ELSE IF fault \in {"AddConsumer", "PullSubscribe", "Fetch"}
          THEN Exchange("/api/rounds/", NoClient, path, 500, FALSE, 0)
          ELSE Exchange("/api/rounds/", NoClient, path, 200, TRUE,
                        Fetched(SubSeq(path, Len(ApiPrefix) + 1, Len(path)), fault))
    /\ consumers' \in ApiReleased(path, fault)
    /\ UNCHANGED <<rejected, natsUp, sendCap, timerVariant, now, Clients, RoundActive, CurrentRoundID,
                   MessageLimiter, RoundMessages, hub, sched, countdown, winner,
                   Username, Send, SendClosed, connCloses, rp, wp, nSent, stream,
                   pubFailures, enq, delivered, transport, regAtEnd>>

\* the handler of /api/rounds/
ApiRounds(path, fault) ==
    /\ http' =
          IF ~natsUp THEN Exchange("/api/rounds/", NoClient, path, 503, FALSE, 0)
          ELSE IF Len(path) <= Len(ApiPrefix)
          THEN Exchange("/api/rounds/", NoClient, path, 400, FALSE, 0)
          ELSE IF fault \in {"AddConsumer", "PullSubscribe", "Fetch"}
          THEN Exchange("/api/rounds/", NoClient, path, 500, FALSE, 0)
          ELSE Exchange("/api/rounds/", NoClient, path, 200, TRUE,
                        Fetched(SubSeq(path, Len(ApiPrefix) + 1, Len(path)), fault))
    /\ consumers' \in ApiReleased(path, fault)
    /\ UNCHANGED <<rejected, natsUp, sendCap, timerVariant, now, Clients, RoundActive, CurrentRoundID,
                   MessageLimiter, RoundMessages, hub, sched, countdown, winner,
                   Username, Send, SendClosed, connCloses, rp, wp, nSent, stream,
                   pubFailures, enq, delivered, transport, regAtEnd>>

ApiNext == \E path \in ApiPaths : \E fault \in ApiFaults : ApiRounds(path, fault)

Next ==
    \/ ServeWsNext
    \/ ApiNext
    \/ HubNext
    \/ SchedNext
    \/ CountdownNext
    \/ WinnerNext
    \/ StreamWinnerNext
    \/ ReadPumpNext
    \/ WritePumpNext

Spec == Init /\ [][Next]_vars

(***************************************************************************)
(* The handler, the scheduler and SelectWinner racing: one connection,     *)
(* queues of the capacity of the source (never full), a peer that stays.   *)
(***************************************************************************)
RoundsEnvelopes ==
    { Envelope("1.0", "client_message", <<"h">>),
      Envelope("1.0", "client_message", <<" ">>) }

InitRounds == Init /\ sendCap = SendCapacity

HandlerNext(c) ==
    \/ \E e \in RoundsEnvelopes : ReadEnvelope(c, e)
    \/ CheckLimiter(c)
    \/ ProcessMessage(c)
    \/ AddRoundMessage(c)
    \/ SendAckMessage(c)
    \/ \E ok \in BOOLEAN : PublishMessage(c, ok)
    \/ SendErrorMessage(c)

NextRounds ==
    \/ ServeWsRegister("c1", Alice)
    \/ HubRegister
    \/ SchedNext
    \/ WinnerNext
    \/ HandlerNext("c1")

SpecRounds == InitRounds /\ [][NextRounds]_vars

(***************************************************************************)
(* The Hub and two connections with short queues: one round is ended, no   *)
(* envelope is sent, the second connection may be refused, either peer may *)
(* go away and either write pump may fail; a write takes one frame.        *)
(***************************************************************************)
InitHub == Init /\ sendCap = SmallCap /\ natsUp

\* the scheduler until it has ended one round
SchedOneRound ==
    \/ SchedStartRound
    \/ sched.ended = 0 /\ SchedTick
    \/ StartRoundBroadcast
    \/ StartRoundPublish(TRUE)
    \/ EndRoundBroadcast
    \/ EndRoundPublish(TRUE)

\* SelectWinner for a round without submissions
NoWinnerNext ==
    \/ \E k \in RoundNumbers : SelectWinnerPick(k, 1)
    \/ \E k \in RoundNumbers : SelectWinnerBroadcast(k)

NextHub ==
    \/ ServeWsRegister("c1", Alice)
    \/ rp["c1"].pc # "none" /\ ServeWsRegister("c2", Bob)
    \/ rp["c1"].pc # "none" /\ ServeWsRefuse("c2", TooShort)
    \/ HubNext
    \/ SchedOneRound
    \/ NoWinnerNext
    \/ \E c \in ConnIds : ReadFails(c)
    \/ \E c \in ConnIds : WritePumpWrite(c, 0)
    \/ \E c \in ConnIds : WritePumpWriteFails(c)
    \/ \E c \in ConnIds : WritePumpChannelClosed(c)
    \/ \E c \in ConnIds : WritePumpPingFails(c)

SpecHub == InitHub /\ [][NextHub]_vars

\* the same with the goroutines scheduled: Hub.Run, the scheduler,
\* SelectWinner and the write pumps take a step whenever they can; a peer that
\* goes away and a write that fails are events that need not happen
FairSpecHub ==
    /\ SpecHub
    /\ WF_vars(HubNext)
    /\ WF_vars(SchedOneRound)
    /\ WF_vars(NoWinnerNext)
    /\ \A c \in ConnIds : WF_vars(WritePumpWrite(c, 0))

(***************************************************************************)
(* One connection with a short queue and its two pumps; the frames for it  *)
(* are the broadcasts of one round (by the Hub) and the replies to         *)
(* envelopes that are refused (by its read pump).                          *)
(***************************************************************************)
PumpEnvelopes ==
    { Envelope("1.0", "chat", <<"h">>),
      Envelope("1.0", NoValue, <<"h">>) }

NextPump ==
    \/ ServeWsRegister("c1", Alice)
    \/ HubNext
    \/ SchedOneRound
    \/ NoWinnerNext
    \/ \E e \in PumpEnvelopes : ReadEnvelope("c1", e)
    \/ SendErrorMessage("c1")
    \/ ReadFails("c1")
    \/ WritePumpNext

SpecPump == InitHub /\ [][NextPump]_vars

\* one iteration of the case `message, ok := <-client.Send` of WritePump
WritePumpReceive(c) ==
    \/ \E n \in 0..(Len(Send[c]) - 1) : WritePumpWrite(c, n)
    \/ WritePumpWriteFails(c)
    \/ WritePumpChannelClosed(c)

\* SpecPump where a write pump that can receive from its channel does so
FairSpecPump == SpecPump /\ \A c \in ConnIds : WF_vars(WritePumpReceive(c))

(***************************************************************************)
(* One connection that sends every kind of envelope, also frames over the  *)
(* read limit, around the first round; queues of the capacity of the       *)
(* source, the stream available and no publish failing.                    *)
(***************************************************************************)
InitHandler == Init /\ sendCap = SendCapacity /\ natsUp

\* SelectWinner when every publish succeeds
WinnerPublishedNext ==
    \/ \E k \in RoundNumbers : \E idx \in 1..MaxMsgs : SelectWinnerPick(k, idx)
    \/ \E k \in RoundNumbers : SelectWinnerBroadcast(k)
    \/ \E k \in RoundNumbers : SelectWinnerPublish(k, TRUE)
    \/ \E k \in RoundNumbers : SelectWinnerCleanup(k)

NextHandler ==
    \/ ServeWsRegister("c1", Alice)
    \/ HubNext
    \/ SchedOneRound
    \/ WinnerPublishedNext
    \/ \E e \in Envelopes : ReadEnvelope("c1", e)
    \/ \E e \in Envelopes : ReadTooLarge("c1", e)
    \/ CheckLimiter("c1")
    \/ ProcessMessage("c1")
    \/ AddRoundMessage("c1")
    \/ SendAckMessage("c1")
    \/ PublishMessage("c1", TRUE)
    \/ SendErrorMessage("c1")

SpecHandler == InitHandler /\ [][NextHandler]_vars

(***************************************************************************)
(* The HTTP handlers: upgrades of two connections with usernames of the    *)
(* lengths around the limits, and requests for the history of a round,     *)
(* with and without a stream, before and after the first round has started.*)
(***************************************************************************)
\* a username of n characters of the class
Name(n) == [i \in 1..n |-> IF i = 1 THEN "Z" ELSE "0"]

\* the username parameters of the upgrades: none, and lengths 2, 3, 20, 21
UpgradeInputs == {<<>>, TooShort, Alice, BadChar, Name(MaxUsernameLen), Name(MaxUsernameLen + 1)}

NextHttp ==
    \/ \E c \in ConnIds : \E u \in UpgradeInputs : ServeWsRefuse(c, u)
    \/ \E c \in ConnIds : \E u \in UpgradeInputs : ServeWsRegister(c, u)
    \/ HubNext
    \/ \E c \in ConnIds : ReadFails(c)
    \/ ApiNext
    \/ SchedStartRound
    \/ StartRoundBroadcast
    \/ StartRoundPublish(TRUE)

SpecHttp == Init /\ [][NextHttp]_vars

(***************************************************************************)
(* One connection that submits around the boundaries of the rounds, and    *)
(* requests for the history of that round; the stream is available, no     *)
(* publish and no call of the history handler fails.                       *)
(***************************************************************************)
\* the path of the history of the first round
FirstRoundPath == ApiPrefix \o FormatInt(StartEpoch)

\* the scheduler when every publish succeeds
SchedPublishedNext ==
    \/ SchedStartRound
    \/ SchedTick
    \/ StartRoundBroadcast
    \/ StartRoundPublish(TRUE)
    \/ EndRoundBroadcast
    \/ EndRoundPublish(TRUE)

NextHistory ==
    \/ ServeWsRegister("c1", Alice)
    \/ HubRegister
    \/ SchedPublishedNext
    \/ ReadEnvelope("c1", Envelope("1.0", "client_message", <<"h">>))
    \/ CheckLimiter("c1")
    \/ ProcessMessage("c1")
    \/ AddRoundMessage("c1")
    \/ SendAckMessage("c1")
    \/ PublishMessage("c1", TRUE)
    \/ SendErrorMessage("c1")
    \/ ApiRounds(FirstRoundPath, "none")

SpecHistory == InitHandler /\ [][NextHistory]_vars

(***************************************************************************)
(* The countdowns of two rounds next to the scheduler, with one client     *)
(* that receives the frames; the stream is available and no publish fails. *)
(***************************************************************************)
NextCountdown ==
    \/ ServeWsRegister("c1", Alice)
    \/ HubRegister
    \/ SchedPublishedNext
    \/ CountdownNext

SpecCountdown == InitHandler /\ [][NextCountdown]_vars

(***************************************************************************)
(* SelectWinner and cleanupOldMessages on a server that has been running:  *)
(* up to five rounds, started 15 s apart, have one submission each in the  *)
(* buffer and on the stream; one of them has ended and its winner          *)
(* selection starts.                                                       *)
(***************************************************************************)
HistoryLen == 5

\* the ids of the rounds of the first HistoryLen ticks of the 15 s timer
RoundTimes == {StartEpoch + RoundSeconds("endstart") * j : j \in 0..(HistoryLen - 1)}

RECURSIVE RoundsInOrder(_)
RoundsInOrder(S) ==
    IF S = {} THEN <<>>
    ELSE LET first == CHOOSE x \in S : \A y \in S : x <= y
         IN <<first>> \o RoundsInOrder(S \ {first})

InitCleanup ==
    /\ natsUp = TRUE
    /\ sendCap = SendCapacity
    /\ pubFailures = 0
    /\ timerVariant = "endstart"
    /\ \E S \in SUBSET RoundTimes : \E R \in S :
          /\ RoundMessages = [id \in S |-> <<[Username |-> Alice, Message |-> <<"h">>,
                                             Timestamp |-> id]>>]
          /\ stream = [i \in 1..Cardinality(S) |->
                          StreamRecord("messages", RoundsInOrder(S)[i], Alice, <<"h">>)]
          /\ winner = [k \in RoundNumbers |->
                          IF k = 1 THEN [TaskIdle EXCEPT !.pc = "select", !.roundID = R]
                          ELSE TaskIdle]
          /\ CurrentRoundID \in {id \in RoundTimes : id > R}
                                  \cup {StartEpoch + RoundSeconds("endstart") * HistoryLen}
    /\ now = CurrentRoundID
    /\ RoundActive = TRUE
    /\ Clients = {}
    /\ MessageLimiter = {}
    /\ hub = HubIdle
    /\ sched = [pc |-> "wait", roundID |-> 0, started |-> MaxRounds, ended |-> MaxRounds - 1]
    /\ countdown = [k \in RoundNumbers |-> TaskIdle]
    /\ Username = [c \in ConnIds |-> <<>>]
    /\ Send = [c \in ConnIds |-> <<>>]
    /\ SendClosed = [c \in ConnIds |-> FALSE]
    /\ connCloses = [c \in ConnIds |-> 0]
    /\ rp = [c \in ConnIds |-> [ReadIdle EXCEPT !.pc = "none"]]
    /\ wp = [c \in ConnIds |-> "none"]
    /\ nSent = [c \in ConnIds |-> 0]
    /\ enq = [c \in ConnIds |-> [t \in {"all"} \cup ReplyTypes |-> 0]]
    /\ delivered = [c \in ConnIds |-> {}]
    /\ transport = [c \in ConnIds |-> <<>>]
    /\ regAtEnd = <<>>
    /\ http = NoExchange
    /\ consumers = {}
    /\ rejected = {}

SpecCleanup == InitCleanup /\ [][WinnerPublishedNext]_vars

(***************************************************************************)
(* One connection, one round, the SelectWinner that reads the stream, and  *)
(* history requests for the round, with and without the stream.            *)
(***************************************************************************)
InitStream == Init /\ sendCap = SendCapacity

NextStream ==
    \/ ServeWsRegister("c1", Alice)
    \/ HubRegister
    \/ SchedOneRound
    \/ ReadEnvelope("c1", Envelope("1.0", "client_message", <<"h">>))
    \/ CheckLimiter("c1")
    \/ ProcessMessage("c1")
    \/ AddRoundMessage("c1")
    \/ SendAckMessage("c1")
    \/ PublishMessage("c1", TRUE)
    \/ SendErrorMessage("c1")
    \/ StreamWinnerNext
    \/ \E fault \in ApiFaults : ApiRounds(FirstRoundPath, fault)

SpecStream == InitStream /\ [][NextStream]_vars

(***************************************************************************)
(* One connection whose read pump gets an accepted and a rejected          *)
(* submission and a failed read, with both replies and the unregistration. *)
(***************************************************************************)
NextReply ==
    \/ ServeWsRegister("c1", Alice)
    \/ HubNext
    \/ SchedOneRound
    \/ ReadEnvelope("c1", Envelope("1.0", "client_message", <<"h">>))
    \/ ReadEnvelope("c1", Envelope("1.0", "client_message", <<>>))
    \/ CheckLimiter("c1")
    \/ ProcessMessage("c1")
    \/ AddRoundMessage("c1")
    \/ SendAckMessage("c1")
    \/ PublishMessage("c1", TRUE)
    \/ SendErrorMessage("c1")
    \/ ReadFails("c1")
    \/ WritePumpChannelClosed("c1")

SpecReply == InitHandler /\ [][NextReply]_vars

(***************************************************************************)
(* Properties.                                                             *)
(***************************************************************************)
\* positions of the stream that hold a record of `kind` for round R
StreamAt(kind, R) == {i \in 1..Len(stream) : stream[i].kind = kind /\ stream[i].round = R}

\* positions of the buffer of round R that hold a submission of username U
BufferAt(R, U) ==
    IF R \in DOMAIN RoundMessages
    THEN {i \in 1..Len(RoundMessages[R]) : RoundMessages[R][i].Username = U}
    ELSE {}

RoundIds == DOMAIN RoundMessages \cup {stream[i].round : i \in 1..Len(stream)}
Users == {Username[c] : c \in ConnIds} \ {<<>>}

\* C1: for every round id R and every username U, at most one submission of
\* U is in the buffer of R and at most one is on the stream under messages.R,
\* whatever the scheduler does while a submission is being handled.
OneSubmissionPerUserPerRound ==
    \A R \in RoundIds : \A U \in Users :
        /\ Cardinality(BufferAt(R, U)) <= 1
        /\ Cardinality({i \in StreamAt("messages", R) : stream[i].username = U}) <= 1

\* a sender got its frame through h.Broadcast in this step
BroadcastReceived ==
    \/ sched.pc \in {"start_broadcast", "end_broadcast"} /\ sched'.pc # sched.pc
    \/ \E k \in RoundNumbers : winner[k].pc = "broadcast" /\ winner'[k].pc # "broadcast"
    \/ \E k \in RoundNumbers : countdown[k].pc = "broadcast" /\ countdown'[k] # countdown[k]

\* C2: when the Hub fans out a broadcast and the queue of a registered client
\* is full, that client is removed from the registry and its queue is closed,
\* every other registered client has the frame put on its queue, and the
\* broadcast completes (the Hub is back at its select).
FullQueueIsUnregistered ==
    [][ BroadcastReceived =>
          \A c \in Clients :
             IF ~HasRoom(c)
             THEN c \notin Clients' /\ SendClosed'[c] /\ hub'.pc = "select"
             ELSE Len(Send'[c]) = Len(Send[c]) + 1 ]_vars

\* the buffer of round R
Buffered(R) == IF R \in DOMAIN RoundMessages THEN RoundMessages[R] ELSE <<>>

\* C3: for every round R that has ended (SelectWinner(R) has returned) and has
\* an accepted submission, one winner announcement was broadcast, its
\* (username, content) is one of the submissions accepted for R, and exactly
\* one winners.R record is on the stream.  Stated for the runs in which the
\* stream is available and no publish has failed.
OneWinnerPerRound ==
    \A k \in RoundNumbers :
        LET R == winner[k].roundID IN
        (natsUp /\ pubFailures = 0 /\ winner[k].pc = "done" /\ Len(Buffered(R)) >= 1) =>
            /\ winner[k].picked
            /\ winner[k].frame.type = "winner_announcement"
            /\ \E i \in 1..Len(Buffered(R)) :
                  /\ Buffered(R)[i].Username = winner[k].frame.user
                  /\ Buffered(R)[i].Message = winner[k].frame.content
            /\ Cardinality(StreamAt("winners", R)) = 1

\* C4: whenever SelectWinner(R) picks a winner, the picked entry is an entry
\* of RoundMessages[R] as it is at that moment, never an entry of another
\* round or one that is not in the buffer.
PickedFromOwnRound ==
    [][ \A k \in RoundNumbers :
          (winner[k].pc = "select" /\ winner'[k].pc # "select" /\ winner'[k].picked) =>
              \E i \in 1..Len(Buffered(winner[k].roundID)) :
                  Buffered(winner[k].roundID)[i] = winner'[k].won ]_vars

\* a winner was picked while two rounds had submissions in the buffer
PickedAmongTwoRounds ==
    /\ Cardinality(DOMAIN RoundMessages) >= 2
    /\ \E k \in RoundNumbers : winner[k].picked

\* submissions of username U in the buffer, over all rounds
AcceptedOf(U) ==
    SumOver([R \in DOMAIN RoundMessages |-> Cardinality(BufferAt(R, U))],
            DOMAIN RoundMessages)

\* acks put on the queues of the connections of username U, and those about
\* to be (the submission is in the buffer, SendAckMessage is next)
AcksOf(U) ==
    SumOver([c \in ConnIds |->
               IF Username[c] = U
               THEN enq[c]["ack"] + (IF rp[c].pc = "send_ack" THEN 1 ELSE 0)
               ELSE 0], ConnIds)

\* the handler of c has an envelope it has not replied to yet
ReplyDue(c) == rp[c].pc \in {"limiter", "process", "add", "send_ack", "send_error"}

\* C5: every accepted submission (one appended to the round buffer) gets
\* exactly one ack and no error on the sender's queue, whether the
\* publication succeeds, fails or is skipped: the acks are as many as the
\* submissions in the buffer, and every envelope gets one reply, no more.
OneAckPerAccepted ==
    /\ \A U \in Users : AcksOf(U) = AcceptedOf(U)
    /\ \A c \in ConnIds :
          enq[c]["ack"] + enq[c]["error"] + (IF ReplyDue(c) THEN 1 ELSE 0) = nSent[c]

\* a submission was accepted and acked, and its publication failed
AckedThoughNotPublished ==
    /\ natsUp /\ pubFailures = 1
    /\ rp["c1"].pc = "read" /\ enq["c1"]["ack"] = 1 /\ enq["c1"]["error"] = 0
    /\ AcceptedOf(Alice) = 1
    /\ \A i \in 1..Len(stream) : stream[i].kind # "messages"

RECURSIVE Flatten(_)
Flatten(batches) == IF batches = <<>> THEN <<>> ELSE Head(batches) \o Flatten(Tail(batches))

\* C6: for each client, the frames its write pump writes to the transport are
\* the frames put on its queue, in the order they were put there, none out of
\* order and none twice, also when one write takes several queued frames.
WrittenInEnqueueOrder ==
    \A c \in ConnIds :
        LET written == Flatten(transport[c]) IN
        \A i \in 1..Len(written) : written[i] = i

\* a write took two frames of which one is a broadcast and one a reply
WroteABatch ==
    /\ \E i \in 1..Len(transport["c1"]) : Len(transport["c1"][i]) >= 2
    /\ enq["c1"]["error"] >= 1
    /\ delivered["c1"] # {}
    /\ Len(Flatten(transport["c1"])) = enq["c1"]["all"]

\* C7: on the stream, the rounds.started.R record comes before every
\* messages.R record.  Stated for the runs in which no publish has failed.
StartedBeforeMessages ==
    pubFailures = 0 =>
        \A j \in 1..Len(stream) :
            stream[j].kind = "messages" =>
                \E i \in 1..(j - 1) :
                    stream[i].kind = "rounds.started" /\ stream[i].round = stream[j].round

\* C8: on the stream, the rounds.ended.R record comes before the winners.R
\* record: no rounds.ended.R follows a winners.R, and when no publish has
\* failed a rounds.ended.R precedes it.
EndedBeforeWinners ==
    \A j \in 1..Len(stream) :
        stream[j].kind = "winners" =>
            /\ \A i \in StreamAt("rounds.ended", stream[j].round) : i < j
            /\ pubFailures = 0 => StreamAt("rounds.ended", stream[j].round) # {}

\* a round has both of its records on the stream
EndedAndWinnersPublished ==
    \E R \in RoundIds : StreamAt("rounds.ended", R) # {} /\ StreamAt("winners", R) # {}

\* the announcement of SelectWinner(R) is among the frames put on the queue of c
Announced(c, R) ==
    \E f \in delivered[c] : f.type = "winner_announcement" /\ f.round = R

\* C9: for every client registered when round R ended and still registered
\* when R's announcement (winner or no messages) is put on its queue, the
\* round-end frame of R was put on its queue before.
EndFrameBeforeAnnouncement ==
    \A k \in 1..Len(regAtEnd) : \A c \in regAtEnd[k].clients :
        Announced(c, regAtEnd[k].round) => RoundEndedInfo(regAtEnd[k].round) \in delivered[c]

\* both clients were registered across the end of a round and got its
\* announcement
BothAnnounced ==
    \E k \in 1..Len(regAtEnd) :
        /\ regAtEnd[k].clients = ConnIds
        /\ \A c \in ConnIds : Announced(c, regAtEnd[k].round)

\* C10: a client_message handled while h.RoundActive is false is answered with
\* an error whose error_code is OUTSIDE_ROUND, and leaves the limiter, the
\* round buffers and the stream as they are.
OutsideRoundRefused ==
    [][ \A c \in ConnIds :
          (nSent'[c] # nSent[c] /\ rp'[c].msg.type = "client_message" /\ ~RoundActive) =>
              /\ rp'[c].pc = "send_error"
              /\ ErrorFrame(rp'[c].text).code = "OUTSIDE_ROUND"
              /\ UNCHANGED <<MessageLimiter, RoundMessages, stream>> ]_vars

\* the part of C10 that is about the state: the envelope is refused and
\* nothing is marked, buffered or published
OutsideRoundLeavesNoTrace ==
    [][ \A c \in ConnIds :
          (nSent'[c] # nSent[c] /\ rp'[c].msg.type = "client_message" /\ ~RoundActive) =>
              /\ rp'[c].pc = "send_error"
              /\ rp'[c].text = "No active round"
              /\ UNCHANGED <<MessageLimiter, RoundMessages, stream>> ]_vars

\* the limiter step of the second of two valid submissions of one client in
\* the first round the server runs: the first is in the buffer of the current
\* round and was acked, and no round has ended or started since
SecondInSameRound(c) ==
    /\ rp[c].pc = "limiter" /\ rp'[c].pc # "limiter"
    /\ DataVerdict(rp[c].msg.data) = "ok"
    /\ RoundActive /\ sched.started = 1 /\ sched.ended = 0
    /\ BufferAt(CurrentRoundID, Username[c]) # {}
    /\ enq[c]["ack"] >= 1

\* C11: when a client sends two valid submissions back to back within one
\* round, the first is acked and recorded and the second is answered with an
\* error whose error_code is ALREADY_SENT and leaves the round buffers and the
\* stream as they are.
SecondSubmissionRefused ==
    [][ \A c \in ConnIds :
          SecondInSameRound(c) =>
              /\ rp'[c].pc = "send_error"
              /\ ErrorFrame(rp'[c].text).code = "ALREADY_SENT"
              /\ UNCHANGED <<RoundMessages, stream>> ]_vars

\* the part of C11 that is about the state: the second submission is refused
\* with the text of the limiter and nothing is buffered or published
SecondSubmissionLeavesNoTrace ==
    [][ \A c \in ConnIds :
          SecondInSameRound(c) =>
              /\ rp'[c].pc = "send_error"
              /\ rp'[c].text = "You have already submitted a message for this round"
              /\ UNCHANGED <<MessageLimiter, RoundMessages, stream>> ]_vars

\* the second submission was refused in the round the first was accepted in
SecondWasRefused ==
    /\ sched.started = 1 /\ sched.ended = 0
    /\ enq["c1"]["ack"] = 1 /\ enq["c1"]["error"] = 1
    /\ Len(Send["c1"]) >= 2 /\ Send["c1"][Len(Send["c1"])].type = "error"
    /\ Send["c1"][Len(Send["c1"])].text = "You have already submitted a message for this round"

\* C12: an envelope whose version is not "1.0" is answered with an error
\* whose error_code is INVALID_VERSION and is never admitted: while it is
\* being handled the handler is on its way to that reply only, so it marks no
\* limiter entry, is not buffered and is not published, whatever its type and
\* data and whether a round is active.
BadVersionRefused ==
    \A c \in ConnIds :
        (rp[c].pc # "read" /\ rp[c].msg.version \notin {"", "1.0"}) =>
            /\ rp[c].pc = "send_error"
            /\ ErrorFrame(rp[c].text).code = "INVALID_VERSION"

\* the part of C12 that is about admission, whatever the reply says: an
\* envelope of another version never gets past the checks of the handler
BadVersionNeverAdmitted ==
    \A c \in ConnIds :
        (rp[c].pc # "read" /\ rp[c].msg.version \notin {"", "1.0"}) =>
            rp[c].pc = "send_error"

\* the texts of the errors the handler replies with
ErrorTexts ==
    { "Invalid message format", "Unknown message type", "No active round",
      "You have already submitted a message for this round", "Invalid message data",
      "Invalid message content: must be 1-500 characters" }

\* C13: when the server replies to a client with a validation error, of any
\* kind, the reply changes neither the registry nor any queue's being open,
\* the client is registered (or the Hub is handling its Register), its queue
\* is open, its connection is not closed, and its read pump is back at the
\* read of the client's next envelope.
ErrorReplyKeepsConnection ==
    [][ \A c \in ConnIds :
          enq'[c]["error"] = enq[c]["error"] + 1 =>
              /\ rp[c].text \in ErrorTexts
              /\ Clients' = Clients /\ SendClosed' = SendClosed
              /\ c \in Clients \/ (hub.pc = "register" /\ hub.client = c)
              /\ ~SendClosed'[c] /\ connCloses'[c] = 0
              /\ rp'[c].pc = "read" ]_vars

\* a registered client was sent an error and then an ack: its next envelope
\* was handled, and accepted
HandledAfterError ==
    /\ "c1" \in Clients /\ ~SendClosed["c1"]
    /\ \E i, j \in 1..Len(Send["c1"]) :
          i < j /\ Send["c1"][i].type = "error" /\ Send["c1"][j].type = "ack"

\* C14: when the stream handle is nil, nothing is published and no publish
\* fails, the submissions in the buffers are acked one for one, and
\* SelectWinner of every ended round announces a winner of that round (or that
\* there were no messages) to every registered client.
ServesWithoutStream ==
    /\ [](~natsUp =>
            /\ stream = <<>> /\ pubFailures = 0
            /\ \A U \in Users : AcksOf(U) = AcceptedOf(U)
            /\ \A k \in RoundNumbers :
                  winner[k].pc \in {"publish", "cleanup", "done"} =>
                      /\ winner[k].frame.type = "winner_announcement"
                      /\ winner[k].frame.round = winner[k].roundID
                      /\ winner[k].roundID \in {regAtEnd[i].round : i \in 1..Len(regAtEnd)})
    /\ [][ ~natsUp =>
             \A k \in RoundNumbers :
                 (winner[k].pc = "broadcast" /\ winner'[k].pc # "broadcast") =>
                     \A c \in Clients : winner[k].frame \in delivered'[c] ]_vars

\* without a stream a submission was recorded and acked, and it was announced
\* to its sender as the winner of its round
AnnouncedWithoutStream ==
    /\ ~natsUp /\ stream = <<>>
    /\ enq["c1"]["ack"] >= 1 /\ "c1" \in Clients
    /\ \E k \in RoundNumbers :
          /\ winner[k].pc = "done" /\ winner[k].picked
          /\ winner[k].frame \in delivered["c1"]

\* the Unregister case of Hub.Run leaves every client but its own as it is
RemovalLeavesOthers ==
    [][ \A c \in ConnIds :
          (rp[c].pc = "unregister" /\ rp'[c].pc = "done") =>
              \A d \in ConnIds \ {c} :
                  /\ (d \in Clients') = (d \in Clients)
                  /\ Send'[d] = Send[d] /\ SendClosed'[d] = SendClosed[d] ]_vars

\* C15: when the read pump of a client has exited on a transport error, the
\* client is eventually removed from the registry and its queue is closed, and
\* the removal leaves the membership and the queues of all other clients as
\* they are.
ReadExitUnregisters ==
    /\ \A c \in ConnIds : (rp[c].pc = "unregister") ~> (c \notin Clients /\ SendClosed[c])
    /\ RemovalLeavesOthers

\* the scheduler is back at its ticker with a round active that it started at
\* the time of the last tick (at the start of the server for the first round)
RoundRunning ==
    /\ RoundActive
    /\ CurrentRoundID = now
    /\ sched.started = sched.ended + 1

\* C16: the scheduler starts the first round at once, and in every tick it
\* ends the current round and then starts a new one: whenever it waits for the
\* next tick, a round is active whose id is the time of the last tick, so no
\* tick leaves the Hub idle until the next one.
EveryTickStartsARound == sched.pc = "wait" => RoundRunning

\* C16 for the StartRoundTimer that runs EndRound and then StartRound in each
\* tick (the version with roundDuration)
EveryTickStartsARoundEndStart ==
    (timerVariant = "endstart" /\ sched.pc = "wait") => RoundRunning

\* the scheduler of that version waits for the tick after the one that started
\* the second round
SecondRoundRunning ==
    /\ timerVariant = "endstart" /\ sched.pc = "wait"
    /\ sched.started = 2 /\ sched.ended = 1

\* C17: when the Hub handles a Register request while a round is active, it
\* puts on the queue of the new client one round_start frame with the round id
\* that is current at that moment (the id and the flag are read in one
\* critical section); when no round is active it puts nothing there.
RegisterSendsRoundStart ==
    [][ (hub.pc = "register" /\ hub'.pc # "register") =>
          LET c == hub.client IN
          /\ c \in Clients'
          /\ IF RoundActive
             THEN /\ Len(Send'[c]) = Len(Send[c]) + 1
                  /\ Send'[c][Len(Send'[c])].type = "round_start"
                  /\ Send'[c][Len(Send'[c])].round = CurrentRoundID
             ELSE Send'[c] = Send[c]
          /\ \A d \in ConnIds \ {c} : Send'[d] = Send[d] ]_vars

\* one client registered during a round and got its round_start frame, the
\* other registered after the round had ended and got none
RegisteredInAndOutOfRound ==
    /\ Clients = ConnIds
    /\ RoundStartFrame(CurrentRoundID) \in delivered["c1"]
    /\ \A f \in delivered["c2"] : f.type # "round_start"
    /\ ~RoundActive /\ sched.pc = "wait"

\* C18: an upgrade is accepted exactly when the username has between 3 and 20
\* characters, all of them letters, digits or underscores, and is refused with
\* 400 otherwise (also when there is no username); a refused upgrade creates
\* no Client: nothing is sent to Register, the registry, the usernames, the
\* queues and the pumps are as before.
UsernameDecidesUpgrade ==
    /\ [](http.route = "/ws" =>
            LET u == http.arg
                valid == /\ Len(u) >= 3 /\ Len(u) <= 20
                         /\ \A i \in 1..Len(u) : u[i] \in UsernameChars
            IN /\ http.status = (IF valid THEN 101 ELSE 400)
               /\ valid => Username[http.conn] = u
               /\ ~valid => rp[http.conn].pc = "refused" /\ Username[http.conn] = <<>>)
    /\ [][ (http' # http /\ http'.route = "/ws" /\ http'.status = 400) =>
             UNCHANGED <<Clients, hub, Username, Send, SendClosed, wp>> ]_vars

\* a username of 20 characters was accepted and registered, one of 21 was
\* refused
LongestAcceptedLongerRefused ==
    /\ Len(Username["c1"]) = 20 /\ "c1" \in Clients
    /\ http = Exchange("/ws", "c2", Name(21), 400, FALSE, 0)
    /\ rp["c2"].pc = "refused" /\ "c2" \notin Clients

\* the length of a content after its surrounding white space is trimmed is
\* between 1 and 500
TrimmedLengthInRange(content) ==
    Len(TrimSpace(content)) >= 1 /\ Len(TrimSpace(content)) <= 500

\* every content in a round buffer or on the stream has a trimmed length
\* between 1 and 500
RejectedContentLeavesNoTrace ==
    /\ \A R \in DOMAIN RoundMessages : \A i \in 1..Len(RoundMessages[R]) :
          TrimmedLengthInRange(RoundMessages[R][i].Message)
    /\ \A i \in 1..Len(stream) :
          stream[i].kind = "messages" => TrimmedLengthInRange(stream[i].content)

\* the client sends a client_message while a round is active in which its
\* username has not been marked
SubmissionSent(c) ==
    /\ nSent'[c] = nSent[c] + 1
    /\ rp'[c].msg.type = "client_message"
    /\ RoundActive /\ Username[c] \notin MessageLimiter

\* the handler of c decides on the data of an envelope it has admitted
DataDecided(c) ==
    /\ rp[c].pc = "limiter" /\ rp'[c].pc # "limiter"
    /\ Username[c] \notin MessageLimiter

\* C19: the content of a submission is accepted exactly when its length after
\* trimming is between 1 and 500: a submission with such a content is taken
\* to the handler, the handler goes on to record it exactly when the length is
\* in that range, and no content outside the range is in a round buffer or on
\* the stream.
ContentDecidesAcceptance ==
    /\ [][ \A c \in ConnIds :
             /\ (SubmissionSent(c) /\ TrimmedLengthInRange(rp'[c].msg.data)) =>
                    rp'[c].pc = "limiter"
             /\ DataDecided(c) =>
                    (rp'[c].pc = "process") = TrimmedLengthInRange(rp[c].msg.data) ]_vars
    /\ []RejectedContentLeavesNoTrace

\* the part of C19 that is about the handler: of the envelopes that reach it,
\* it records those whose content has a trimmed length between 1 and 500, and
\* no other content is buffered or published
HandlerDecidesByLength ==
    /\ [][ \A c \in ConnIds :
             DataDecided(c) =>
                 (rp'[c].pc = "process") = TrimmedLengthInRange(rp[c].msg.data) ]_vars
    /\ []RejectedContentLeavesNoTrace

\* validateMessageContent at the limits: trimmed lengths 0, 1, 500, 501
ValidatorAtTheLimits ==
    /\ ~validateMessageContent(<<>>) /\ ~validateMessageContent(<<" ">>)
    /\ validateMessageContent(Content(1)) /\ validateMessageContent(<<" ", "h", " ">>)
    /\ validateMessageContent(Content(500)) /\ validateMessageContent(<<" ">> \o Content(500))
    /\ ~validateMessageContent(Content(501))

\* a content that is white space only was refused by the handler and one with
\* white space around one character was accepted
TrimmedThenDecided ==
    /\ \E i \in 1..Len(Send["c1"]) :
          Send["c1"][i].text = "Invalid message content: must be 1-500 characters"
    /\ \E R \in DOMAIN RoundMessages : \E i \in 1..Len(RoundMessages[R]) :
          RoundMessages[R][i].Message = <<" ", "h", " ">>

\* C20: a request for /api/rounds/{id} is answered 503 when there is no
\* stream handle, whatever the path; 400 when there is one and the id is
\* missing; 500 when there is one, the id is given and AddConsumer,
\* PullSubscribe or Fetch returns an error; and only the remaining requests
\* get a 200 with the JSON document.
HistoryStatus ==
    [][ \A path \in ApiPaths : \A fault \in ApiFaults :
          ApiRounds(path, fault) =>
              LET missing == path = ApiPrefix
                  failed == fault \in {"AddConsumer", "PullSubscribe", "Fetch"}
              IN /\ http'.arg = path
                 /\ ~natsUp => http'.status = 503
                 /\ (natsUp /\ missing) => http'.status = 400
                 /\ (natsUp /\ ~missing /\ failed) => http'.status = 500
                 /\ (~natsUp \/ missing \/ failed) => ~http'.json
                 /\ http'.json = (http'.status = 200) ]_vars

\* without a stream a request with no id was answered 503
NoIdWithoutStream ==
    /\ ~natsUp
    /\ http = Exchange("/api/rounds/", NoClient, ApiPrefix, 503, FALSE, 0)

\* no read pump is between reading an envelope and the end of its handling
HandlersAtRest == \A c \in ConnIds : rp[c].pc \in {"none", "refused", "read", "unregister", "done"}

\* C21: when the stream is available and no call fails, the count of the
\* response to /api/rounds/{R} is the number of submissions accepted for R,
\* the length of the buffer of R, however the submissions were interleaved
\* with the round boundaries.  Stated for the requests made while no
\* submission is being handled.
HistoryCountsAccepted ==
    [][ (ApiRounds(FirstRoundPath, "none") /\ HandlersAtRest) =>
           /\ http'.status = 200
           /\ http'.count = Len(Buffered(StartEpoch)) ]_vars

\* the count of the response is the number of records the stream holds under
\* messages.{R}
HistoryCountsPublished ==
    [][ ApiRounds(FirstRoundPath, "none") =>
           http'.count = Cardinality(StreamAt("messages", StartEpoch)) ]_vars

\* C21 for the server whose ticker ends a round or starts one
HistoryCountsAcceptedToggle ==
    [][ (timerVariant = "toggle" /\ ApiRounds(FirstRoundPath, "none") /\ HandlersAtRest) =>
           http'.count = Len(Buffered(StartEpoch)) ]_vars

\* Hub.Run is never at a send on its own Unregister channel
HubNeverSendsToItself == hub.pc # "unregister_send"

\* C22: the Hub event loop never blocks while it handles a Register or a
\* Broadcast input: whatever the queues of the clients hold (a full queue
\* too), it finishes the input and is back at its select, where the later
\* register, unregister and broadcast requests are received.
HubReturnsToSelect == (hub.pc # "select") ~> (hub.pc = "select")

\* the handler of c marks its sender in the limiter and goes on to record the
\* submission
Admitted(c) == rp[c].pc = "limiter" /\ rp'[c].pc = "process"

\* C23: the round-active check and the check-and-mark of the limiter are one
\* step with respect to EndRound and StartRound: whenever a submission is
\* admitted (its sender marked, the message going on to be recorded), a round
\* is active at the moment the limiter is marked.
AdmittedWhileActive == [][ \A c \in ConnIds : Admitted(c) => RoundActive ]_vars

\* neither EndRound nor StartRound runs between the round-active check of a
\* handler and its look at the limiter
NoBoundaryBeforeMark ==
    [][ (\E c \in ConnIds : rp[c].pc = "limiter") =>
           UNCHANGED <<RoundActive, CurrentRoundID>> ]_vars

\* C24: every accepted submission is published to the subject messages.{id}
\* of the round id under which it was recorded in the buffer, also when the
\* round changes between ProcessMessage capturing the id and
\* publishMessageToNATS reading it.
PublishedWhereRecorded ==
    [][ \A c \in ConnIds :
          (rp[c].pc = "publish" /\ Len(stream') = Len(stream) + 1) =>
              /\ stream'[Len(stream')].round = rp[c].roundID
              /\ BufferAt(stream'[Len(stream')].round, Username[c]) # {} ]_vars

\* every record under messages.{id} has its submission in the buffer of that
\* round
PublishedIsBuffered ==
    \A i \in 1..Len(stream) :
        stream[i].kind = "messages" => BufferAt(stream[i].round, stream[i].username) # {}

\* C25: the queue of a client is closed at most once, whatever unregister
\* requests are made for it: only the Unregister case of Hub.Run closes a
\* queue, it does so only for a client that is in the registry and whose queue
\* is open, and it removes the client in the same step, so that a client
\* whose queue is closed is never in the registry again.
ClosedAtMostOnce ==
    /\ [][ \A c \in ConnIds :
             SendClosed'[c] # SendClosed[c] =>
                 /\ ~SendClosed[c] /\ SendClosed'[c]
                 /\ hub.pc = "select" /\ rp[c].pc = "unregister" /\ rp'[c].pc = "done"
                 /\ c \in Clients /\ c \notin Clients' ]_vars
    /\ [](\A c \in ConnIds : SendClosed[c] => c \notin Clients /\ rp[c].pc = "done")

\* the queue of the client was closed on the exit of its read pump, after its
\* write pump had failed with frames still queued
ClosedAfterBothPumps ==
    /\ SendClosed["c1"] /\ "c1" \notin Clients
    /\ rp["c1"].pc = "done" /\ wp["c1"] = "done"
    /\ Send["c1"] # <<>>

\* Conn.Close() is called once by each pump that has exited
ClosedOncePerPump ==
    \A c \in ConnIds :
        connCloses[c] = (IF rp[c].pc = "done" THEN 1 ELSE 0) + (IF wp[c] = "done" THEN 1 ELSE 0)

\* C26: each pump of a client closes the transport once, when it exits: the
\* transport is closed as soon as one of the two pumps has exited, and
\* Conn.Close() has been called once for each pump that has exited, in
\* whichever order they exit.
ClosedByEachPump ==
    /\ ClosedOncePerPump
    /\ \A c \in ConnIds : (rp[c].pc = "done" \/ wp[c] = "done") => connCloses[c] >= 1

\* C26 as claimed: the two pumps together close the transport exactly once:
\* Conn.Close() is never called a second time, and it has been called once
\* when a pump has exited.
TransportClosedOnce ==
    \A c \in ConnIds :
        /\ connCloses[c] <= 1
        /\ (rp[c].pc = "done" \/ wp[c] = "done") => connCloses[c] = 1

\* both pumps of the client have exited, the read pump first: the Hub closed
\* the queue and the write pump left on the closed queue
BothPumpsExited ==
    /\ rp["c1"].pc = "done" /\ wp["c1"] = "done"
    /\ SendClosed["c1"] /\ Send["c1"] = <<>>
    /\ connCloses["c1"] = 2

\* StartRound, EndRound took its critical section in this step
RoundStarted == sched'.started = sched.started + 1
RoundEnded == sched'.ended = sched.ended + 1

\* C27: the starts and the ends of rounds alternate, beginning with a start:
\* StartRound runs only when round-active is false and EndRound only when it
\* is true, round-active is true after every start and false after every end,
\* nothing else changes it, and at most one round is active at a time.
RoundsAlternate ==
    /\ [][ /\ RoundStarted => (~RoundActive /\ RoundActive' /\ sched.started = sched.ended)
           /\ RoundEnded => (RoundActive /\ ~RoundActive' /\ sched.started = sched.ended + 1)
           /\ RoundActive' # RoundActive => (RoundStarted \/ RoundEnded)
           /\ CurrentRoundID' # CurrentRoundID => RoundStarted ]_vars
    /\ [](sched.started - sched.ended = (IF RoundActive THEN 1 ELSE 0))

\* the ticker that toggles has started a round, ended it and started the next
ToggledTwice ==
    /\ timerVariant = "toggle" /\ sched.started = 2 /\ sched.ended = 1
    /\ RoundActive /\ CurrentRoundID = StartEpoch + 2 * RoundSeconds("toggle")

\* the reads of h.RoundActive and h.CurrentRoundID that the step taken makes
\* outside h.Mu.Lock() ... h.Mu.Unlock(), each named by its place in
\* internal/hub: the round-active check of HandleClientMessage, the test of
\* the ticker case, the round ids StartRound formats after its critical
\* section, and the round ids the publishers put in subject and record
UnlockedReads ==
    (IF \E c \in ConnIds : /\ rp[c].pc = "read" /\ nSent'[c] = nSent[c] + 1
                           /\ rp'[c].pc # "unregister"
                           /\ rp'[c].msg.type = "client_message"
     THEN {"messaging.go:52"} ELSE {})
    \cup (IF timerVariant = "toggle" /\ sched.pc = "wait" /\ sched'.pc # "wait"
          THEN {"rounds.go:20"} ELSE {})
    \cup (IF sched.pc = "start_broadcast" /\ sched'.pc # "start_broadcast"
          THEN {"rounds.go:41"} ELSE {})
    \cup (IF sched.pc = "start_publish" /\ sched'.pc # "start_publish"
          THEN {"rounds.go:49"} \cup (IF natsUp THEN {"nats.go:41", "nats.go:43"} ELSE {})
          ELSE {})
    \cup (IF natsUp /\ \E c \in ConnIds : rp[c].pc = "publish" /\ rp'[c].pc # "publish"
          THEN {"nats.go:21", "nats.go:24"} ELSE {})

\* C28: every read and every write of round-active, of the current round id
\* and of the limiter, by any goroutine, is made while it holds the mutex of
\* the Hub: no step reads one of them outside a critical section.
AccessesHoldMutex == [][ UnlockedReads = {} ]_vars

\* the writes of the three fields are made in the critical sections of
\* StartRound and EndRound and of the limiter check, and nowhere else
WritesHoldMutex ==
    [][ /\ <<RoundActive, CurrentRoundID>>' # <<RoundActive, CurrentRoundID>> =>
              (RoundStarted \/ RoundEnded)
        /\ MessageLimiter' # MessageLimiter =>
              (RoundStarted \/ \E c \in ConnIds : rp[c].pc = "limiter" /\ rp'[c].pc # "limiter")
      ]_vars

\* the read pump of c has been started and has not returned
PumpAlive(c) == rp[c].pc \notin {"none", "refused", "done"}

PumpSendsNeverWait ==
    \A c \in ConnIds :
        /\ rp[c].pc \in {"send_ack", "send_error"} => HasRoom(c)
        /\ rp[c].pc = "unregister" => hub.pc = "select"

\* C30: no pump blocks on a send: a read pump is never held at the send of an
\* ack or of an error reply by a full queue that its write pump, having
\* exited, no longer drains, and never at its unregister request by a Hub that
\* does not receive.
PumpSendsComplete ==
    \A c \in ConnIds :
        /\ rp[c].pc \in {"send_ack", "send_error"} => (HasRoom(c) \/ wp[c] = "run")
        /\ rp[c].pc = "unregister" => hub.pc # "unregister_send"

\* the countdown of round number k makes its check, puts out a frame
CountdownChecked(k) == countdown[k].pc = "check" /\ countdown'[k].pc # "check"
CountdownEmitted(k) == countdown[k].pc = "broadcast" /\ countdown'[k].pc # "broadcast"

\* C31: the countdown started for round R stops at the first of its checks
\* at which round-active is false or the current round id is not R, it puts
\* out no countdown frame while another round is current, and it makes no
\* more iterations than the count it starts from.
CountdownStaysInItsRound ==
    /\ [][ \A k \in RoundNumbers :
             /\ (CountdownChecked(k) /\ (~RoundActive \/ CurrentRoundID # countdown[k].roundID))
                   => countdown'[k].pc = "done"
             /\ CountdownEmitted(k) => CurrentRoundID = countdown[k].roundID ]_vars
    /\ [](\A k \in RoundNumbers : countdown[k].i \in 0..MaxCountdown)

\* the countdown stops at the first of its checks at which round-active is
\* false, and makes no more iterations than the count it starts from
CountdownStopsWhenInactive ==
    /\ [][ \A k \in RoundNumbers :
             CountdownChecked(k) => (countdown'[k].pc = "done") = ~RoundActive ]_vars
    /\ [](\A k \in RoundNumbers : countdown[k].i \in 0..MaxCountdown)

\* SelectWinner of round number k runs cleanupOldMessages in this step
CleanedUp(k) == winner[k].pc = "cleanup" /\ winner'[k].pc = "done"

\* C32: when the winner selection of round R completes with a winner and the
\* buffer holds more than three rounds, the rounds with an id below R - 2 are
\* removed from the buffer and no other; when it holds three rounds or fewer
\* the buffer is left as it is.
OldRoundsDroppedAboveThree ==
    [][ \A k \in RoundNumbers :
          CleanedUp(k) =>
              LET R == winner[k].roundID IN
              IF Cardinality(DOMAIN RoundMessages) > 3
              THEN /\ DOMAIN RoundMessages' = {id \in DOMAIN RoundMessages : id >= R - 2}
                   /\ \A id \in DOMAIN RoundMessages' : RoundMessages'[id] = RoundMessages[id]
              ELSE RoundMessages' = RoundMessages ]_vars

\* C32 as claimed: after the winner selection of round R has completed with a
\* winner, the buffer holds no round with an id below R - 2.
NoRoundBelowThreshold ==
    \A k \in RoundNumbers :
        (winner[k].pc = "done" /\ winner[k].picked) =>
            \A id \in DOMAIN RoundMessages : id >= winner[k].roundID - 2

\* five rounds were buffered, the winner selection of the latest has
\* completed and the four rounds before it are gone
FourRoundsDropped ==
    /\ Cardinality({stream[i].round : i \in 1..Len(stream)}) = HistoryLen
    /\ winner[1].pc = "done" /\ winner[1].picked
    /\ winner[1].roundID = StartEpoch + RoundSeconds("endstart") * (HistoryLen - 1)
    /\ DOMAIN RoundMessages = {winner[1].roundID}

\* the three rounds of S with the largest ids (all of S when it has fewer)
LatestThree(S) == {id \in S : Cardinality({other \in S : other > id}) < 3}

\* C33: the garbage collection after a winner selection deletes none of the
\* three most recent rounds with buffered submissions: with round ids 15 s
\* apart, the latest three buffered rounds are in the buffer when
\* cleanupOldMessages returns.
LatestThreeKept ==
    [][ \A k \in RoundNumbers :
          CleanedUp(k) => LatestThree(DOMAIN RoundMessages) \subseteq DOMAIN RoundMessages' ]_vars

\* cleanupOldMessages keeps round R itself and every later round
OwnAndLaterRoundsKept ==
    [][ \A k \in RoundNumbers :
          CleanedUp(k) =>
              {id \in DOMAIN RoundMessages : id >= winner[k].roundID}
                  \subseteq DOMAIN RoundMessages' ]_vars

\* a SelectWinner goroutine is between its AddConsumer and its return
Selecting(k) == winner[k].pc \in {"record", "announce"}

\* C34: every ephemeral consumer, and every subscription bound to one, that
\* the history handler or the SelectWinner reading the stream has created is
\* released when the call has returned, whichever way it returned: JetStream
\* holds only those of the SelectWinner goroutines that have not returned yet
ConsumersReleased ==
    \A r \in consumers : \E k \in RoundNumbers : r.owner = Selector(k) /\ Selecting(k)

\* the handler has answered 200 or 500 and a SelectWinner goroutine that
\* created a consumer has returned
ReleasedAfterUse ==
    /\ http.route = "/api/rounds/" /\ http.status \in {200, 500}
    /\ \E k \in RoundNumbers : winner[k].pc = "done" /\ winner[k].announced = 1 /\ natsUp

\* C40: a SelectWinner goroutine that has returned has broadcast exactly one
\* announcement for its round (the winner, or the text for a round without
\* messages or without the stream), whichever way it returned
AnnouncedOnce ==
    \A k \in RoundNumbers : winner[k].pc = "done" => winner[k].announced = 1

\* no SelectWinner goroutine announces twice, and one that returns without an
\* announcement had the stream and could not read the round from it
AnnouncedAtMostOnce ==
    \A k \in RoundNumbers :
        /\ winner[k].announced <= 1
        /\ winner[k].pc = "done" /\ winner[k].announced = 0 => natsUp /\ ~winner[k].picked

\* the Hub has closed the Send channel of c and the write pump of c is running
DrainingClosed(c) == SendClosed[c] /\ wp[c] = "run"

\* C35: once the Hub has closed the Send channel of a client, the write pump
\* of that client terminates: it takes the buffered frames in order, returns
\* at the first write that fails or, with the channel drained, after the
\* close frame, and never stays in its loop on the closed channel
ClosedQueueStopsPump ==
    \A c \in ConnIds : DrainingClosed(c) ~> (wp[c] = "done")

\* the write pump has frames to take from a channel the Hub has closed
ClosedWithFramesBuffered ==
    DrainingClosed("c1") /\ Send["c1"] # <<>>

\* every frame the write pump takes from the closed channel is written to the
\* connection, and the pump returns only with the channel drained, after the
\* close frame
ClosedQueueIsWritten ==
    [][\A c \in ConnIds :
          DrainingClosed(c) =>
             /\ Len(Send'[c]) < Len(Send[c]) => transport'[c] # transport[c]
             /\ wp'[c] = "done" => Send[c] = <<>>]_vars

\* C36: no goroutine sends on a client's Send channel after the Hub has
\* closed it: every step that puts a frame on the channel (the fan-out of a
\* broadcast, the round_start frame at registration, the ack or error reply
\* of the read pump) finds the channel open
NoSendAfterClose ==
    [][\A c \in ConnIds : enq'[c].all > enq[c].all => ~SendClosed[c]]_vars

\* the Hub has closed the channel of a client that got a reply and a frame of
\* the Hub, while broadcasts go on
ClosedAfterReplies ==
    /\ SendClosed["c1"]
    /\ enq["c1"].ack + enq["c1"].error > 0
    /\ delivered["c1"] # {}
    /\ sched.ended > 0

\* C37: the Hub handles the Register request of a connection before any
\* Unregister request for it: whenever the Hub takes the Unregister request
\* of a read pump the client is in the registry, and it is out of it after
RegisteredBeforeUnregistered ==
    [][\A c \in ConnIds :
          rp[c].pc = "unregister" /\ rp'[c].pc = "done" =>
             c \in Clients /\ c \notin Clients']_vars

\* the Hub has handled the Unregister request of a connection it had
\* registered, whose write pump is still running
UnregisteredAfterRegistered ==
    /\ rp["c1"].pc = "done" /\ wp["c1"] = "run"
    /\ "c1" \notin Clients /\ SendClosed["c1"]

\* C38: a client gets at most one notification of the start of a round: the
\* round_start frame of its registration or the frame StartRound broadcasts,
\* never both for the same round
NotifiedOncePerRound ==
    \A c \in ConnIds : \A id \in {CurrentRoundID} \cup {regAtEnd[i].round : i \in 1..Len(regAtEnd)} :
        ~(RoundStartFrame(id) \in delivered[c] /\ RoundStartedInfo(id) \in delivered[c])

\* C39: a username whose submission was rejected for its data or its content
\* in round R has no accepted submission in R while R is the current round
RejectedNeverAccepted ==
    \A p \in rejected : p[2] = CurrentRoundID => BufferAt(p[2], p[1]) = {}

\* after such a rejection in R, and while R is the current round, no further
\* submission of that username passes the limiter
RejectedStaysMarked ==
    /\ \A p \in rejected : p[2] = CurrentRoundID => p[1] \in MessageLimiter
    /\ [][\A c \in ConnIds :
            /\ <<Username[c], CurrentRoundID>> \in rejected
            /\ rp[c].pc = "limiter"
            => rp'[c].pc # "process"]_vars

====
